---------------------------- MODULE Spec2Model ----------------------------
(***************************************************************************)
(* A model of bin/load_emissions.py: process_emissions_data reads a CSV    *)
(* of well emissions, builds a node list and a relationship list, and      *)
(* posts both in batches through a thread pool, nodes first; and of        *)
(* bin/post_nodes_rels.py, which posts one JSON document of nodes or of    *)
(* relationships.                                                          *)
(*                                                                         *)
(* Text is a sequence of one-character strings, so that strip, zfill,      *)
(* f-string concatenation, csv splitting and Python's string ordering are  *)
(* computed and not assumed.                                               *)
(***************************************************************************)
EXTENDS Integers, Sequences, FiniteSets, TLC

(***************************************************************************)
(* Bounds of the model.                                                    *)
(***************************************************************************)
\* most data rows of a CSV drawn for the builder
MaxRows == 3
\* most data rows of a CSV drawn with an explicit batch size
MaxBatchRows == 2
\* largest batch size drawn besides the default
MaxBatchSize == 4
\* largest max_threads drawn
MaxThreads == 3
\* most calls of generate_external_id on the same arguments
MaxDerives == 2
\* longest list in a JSON document drawn for post_nodes_rels.py
MaxItems == 2
\* deepest {"nodes": ...} wrapping drawn
MaxNesting == 2

(***************************************************************************)
(* Program constants.                                                      *)
(***************************************************************************)
BATCH_SIZE == 250
MAX_THREADS == 6
MinColumns == 21
AssuranceLevel == 3

(***************************************************************************)
(* State: the arguments and the file, the locals of                        *)
(* process_emissions_data, the thread pools of its two dispatch rounds,    *)
(* and what the capture API and the operator have seen.                    *)
(***************************************************************************)
VARIABLES
    pc,                 \* where process_emissions_data is
    csv_file,           \* the lines of the file at csv_file_path
    batch_size,         \* argument: {} for None, {n} for n
    max_threads,        \* argument: {} for None, {n} for n
    DEBUG_MODE,         \* the dry-run flag
    actual_batch_size, actual_max_threads,
    spreadsheet_name, verified_time,
    csv_data, wells_data, well_info, emission_type_ids, date_entries,
    all_nodes, all_relationships,
    batches,            \* per round: the (batch_num, total_batches, batch) list
    max_workers,        \* per round: the size of the pool
    submitted,          \* per round: how many batches were submitted, in order
    queue,              \* per round: the pool's work queue (batch numbers)
    inflight,           \* per round: the (worker, batch) sink calls under way
    future,             \* per round and batch: pending, running, or its result
    yielded,            \* per round: the futures as_completed has handed out
    completed, failed,  \* the tallies of the round being collected
    calls,              \* per round and batch: calls of the sink
    raised,             \* per round: the batches whose sink call raised
    posts,              \* per round: HTTP POSTs issued to its endpoint
    clock,              \* the wall clock
    run,                \* 1 in the first run over the file, 2 in a rerun
    prev_nodes, prev_relationships,  \* the lists the first run built
    INDYKITE_TOKEN,     \* os.getenv("INDYKITE_TOKEN"): None or a str
    INDYKITE_HOST,      \* os.getenv("INDYKITE_HOST", default): a str
    file_exists,        \* os.path.exists of the input file of the tool
    printed,            \* what load_emissions.py has reported to the operator
    hash_key, hash_category, hash_date,  \* arguments of generate_external_id
    hash_result,        \* what its calls returned, oldest first
    args_ok,            \* post_nodes_rels.py: argparse accepts the command line
    type_arg,           \* post_nodes_rels.py: --type, {} for None
    json_file,          \* post_nodes_rels.py: what is at the json_file path
    json_data,          \* post_nodes_rels.py: data, the loaded document
    data_type,          \* post_nodes_rels.py: {} for None, else the type
    posted,             \* post_nodes_rels.py: the POSTs issued, oldest first
    exit_status         \* post_nodes_rels.py: {} while running, else the status

vars ==
    << pc, csv_file, batch_size, max_threads, DEBUG_MODE,
       actual_batch_size, actual_max_threads, spreadsheet_name, verified_time,
       csv_data, wells_data, well_info, emission_type_ids, date_entries,
       all_nodes, all_relationships,
       batches, max_workers, submitted, queue, inflight, future, yielded,
       completed, failed, calls, raised, posts,
       clock, run, prev_nodes, prev_relationships,
       INDYKITE_TOKEN, INDYKITE_HOST, file_exists, printed,
       hash_key, hash_category, hash_date, hash_result,
       args_ok, type_arg, json_file, json_data, data_type, posted, exit_status >>

buildVars ==
    << spreadsheet_name, verified_time,
       csv_data, wells_data, well_info, emission_type_ids, date_entries,
       all_nodes, all_relationships >>

poolVars ==
    << batches, max_workers, submitted, queue, inflight, future, yielded,
       completed, failed, calls, raised, posts >>

argVars == << csv_file, batch_size, max_threads, DEBUG_MODE >>

rerunVars == << clock, run, prev_nodes, prev_relationships >>

envVars == << INDYKITE_TOKEN, INDYKITE_HOST, file_exists >>

hashVars == << hash_key, hash_category, hash_date, hash_result >>

replayVars == << args_ok, type_arg, json_file, json_data, data_type, posted, exit_status >>

\* what process_emissions_data neither reads nor writes
besideVars == << envVars, hashVars, replayVars >>

(***************************************************************************)
(* Text.                                                                   *)
(***************************************************************************)
\* The characters used, in code point order (Python compares str by code point).
Alphabet ==
    << " ", "+", ",", "-", ".", "/",
       "0", "1", "2", "3", "4", "5", "6", "7", "8", "9",
       "A", "B", "C", "D", "E", "F", "G", "H", "I", "J", "K", "L", "M",
       "N", "O", "P", "Q", "R", "S", "T", "U", "V", "W", "X", "Y", "Z",
       "_",
       "a", "b", "c", "d", "e", "f", "g", "h", "i", "j", "k", "l", "m",
       "n", "o", "p", "q", "r", "s", "t", "u", "v", "w", "x", "y", "z" >>

Chars == { Alphabet[i] : i \in 1..Len(Alphabet) }

Ord == [ c \in Chars |-> CHOOSE i \in 1..Len(Alphabet) : Alphabet[i] = c ]

Digits == { "0", "1", "2", "3", "4", "5", "6", "7", "8", "9" }

DigitValue == [ c \in Digits |-> Ord[c] - Ord["0"] ]

\* a < b for str, as Python orders them: first differing code point, then length
RECURSIVE StrLess(_, _)
StrLess(a, b) ==
    IF b = << >> THEN FALSE
    ELSE IF a = << >> THEN TRUE
    ELSE IF Head(a) = Head(b) THEN StrLess(Tail(a), Tail(b))
    ELSE Ord[Head(a)] < Ord[Head(b)]

\* str.strip(): the only whitespace of the alphabet is the space
RECURSIVE LStrip(_)
LStrip(s) ==
    IF s # << >> /\ Head(s) = " " THEN LStrip(Tail(s)) ELSE s

RECURSIVE RStrip(_)
RStrip(s) ==
    IF s # << >> /\ s[Len(s)] = " " THEN RStrip(SubSeq(s, 1, Len(s) - 1)) ELSE s

Strip(s) == RStrip(LStrip(s))

Zeros(n) == [ i \in 1..n |-> "0" ]

\* str.zfill(width): zeros on the left, after a leading sign
ZFill(s, width) ==
    IF Len(s) >= width THEN s
    ELSE IF s # << >> /\ Head(s) \in { "+", "-" }
         THEN << Head(s) >> \o Zeros(width - Len(s)) \o Tail(s)
         ELSE Zeros(width - Len(s)) \o s

\* the parts of s between occurrences of the character sep
RECURSIVE SplitAt(_, _)
SplitAt(s, sep) ==
    IF \A i \in 1..Len(s) : s[i] # sep
    THEN << s >>
    ELSE LET k == CHOOSE i \in 1..Len(s) :
                      /\ s[i] = sep
                      /\ \A j \in 1..(i - 1) : s[j] # sep
         IN  << SubSeq(s, 1, k - 1) >> \o SplitAt(SubSeq(s, k + 1, Len(s)), sep)

\* the cells of one line as csv.reader gives them, for lines without quotes
SplitComma(line) == SplitAt(line, ",")

\* os.path.basename
RECURSIVE Basename(_)
Basename(p) ==
    IF \A i \in 1..Len(p) : p[i] # "/" THEN p
    ELSE Basename(Tail(p))


(***************************************************************************)
(* Values of the program.                                                  *)
(***************************************************************************)
\* Python's None, and a float (the drawn literals are whole numbers)
None == [ t |-> "none" ]

Float(x) == [ t |-> "float", x |-> x ]

Str(s) == [ t |-> "str", s |-> s ]

\* "_" and "-" of the f-strings
Underscore == << "_" >>

Dash == << "-" >>

Flaring == << "F", "l", "a", "r", "i", "n", "g" >>

ColdVentilation == << "C", "o", "l", "d", "V", "e", "n", "t", "i", "l", "a", "t", "i", "o", "n" >>

DieselFuel == << "D", "i", "e", "s", "e", "l", "F", "u", "e", "l" >>

FuelGas == << "F", "u", "e", "l", "G", "a", "s" >>

\* emission_types, in the order the code lists them
emission_types == << Flaring, ColdVentilation, DieselFuel, FuelGas >>

\* column indices (0-based, as in the code) of each emission type
get_emission_type_columns(emission_type) ==
    CASE emission_type = Flaring ->
             [ volume |-> 5, volume_uom |-> 6, mass |-> 7, mass_uom |-> 8 ]
      [] emission_type = ColdVentilation ->
             [ volume |-> 9, volume_uom |-> 10, mass |-> 11, mass_uom |-> 12 ]
      [] emission_type = DieselFuel ->
             [ volume |-> 13, volume_uom |-> 14, mass |-> 15, mass_uom |-> 16 ]
      [] emission_type = FuelGas ->
             [ volume |-> 17, volume_uom |-> 18, mass |-> 19, mass_uom |-> 20 ]

\* row[i] for a 0-based index i
Cell(row, i) == row[i + 1]

\* year-month-day with month and day zero-padded to width 2
create_date_string(year, month, day) ==
    Strip(year) \o Dash \o ZFill(Strip(month), 2) \o Dash \o ZFill(Strip(day), 2)

\* The first 24 hex characters of the SHA-256 digest of text.  The digest is
\* not computed: it is kept as its preimage behind a marker, which makes it
\* a function of the text that is injective and never equal to a raw key.
Sha256Hex24(text) == << "sha256[:24] of" >> \o text

\* an identity that also hashes the time of the run
generate_external_id_stamped(key, emission_type, date) ==
    Sha256Hex24(key \o Underscore \o emission_type \o Underscore \o date
                    \o Underscore \o << Alphabet[Ord["0"] + verified_time] >>)

generate_external_id(key, emission_type, date) ==
    Sha256Hex24(key \o Underscore \o emission_type \o Underscore \o date)

(***************************************************************************)
(* hashlib.sha256(combined.encode('utf-8')).hexdigest()[:24], computed.    *)
(* A 32-bit word is a pair (high half, low half) of 16-bit numbers.        *)
(***************************************************************************)
\* characters outside ASCII that a key can hold, named by their code point
OSlash == "U+00F8"

EuroSign == "U+20AC"

GClef == "U+1D11E"

\* the code points of Alphabet, in its order
AlphabetCodePoints ==
    << 32, 43, 44, 45, 46, 47,
       48, 49, 50, 51, 52, 53, 54, 55, 56, 57,
       65, 66, 67, 68, 69, 70, 71, 72, 73, 74, 75, 76, 77,
       78, 79, 80, 81, 82, 83, 84, 85, 86, 87, 88, 89, 90,
       95,
       97, 98, 99, 100, 101, 102, 103, 104, 105, 106, 107, 108, 109,
       110, 111, 112, 113, 114, 115, 116, 117, 118, 119, 120, 121, 122 >>

CodePoint(c) ==
    CASE c = OSlash -> 248
      [] c = EuroSign -> 8364
      [] c = GClef -> 119070
      [] OTHER -> AlphabetCodePoints[Ord[c]]

\* the UTF-8 bytes of one code point
EncodeCodePoint(n) ==
    IF n < 128 THEN << n >>
    ELSE IF n < 2048 THEN << 192 + (n \div 64), 128 + (n % 64) >>
    ELSE IF n < 65536
         THEN << 224 + (n \div 4096), 128 + ((n \div 64) % 64), 128 + (n % 64) >>
         ELSE << 240 + (n \div 262144), 128 + ((n \div 4096) % 64),
                 128 + ((n \div 64) % 64), 128 + (n % 64) >>

\* str.encode('utf-8')
RECURSIVE EncodeUtf8(_)
EncodeUtf8(text) ==
    IF text = << >> THEN << >>
    ELSE IF Len(text) = 1 THEN EncodeCodePoint(CodePoint(text[1]))
    ELSE LET half == Len(text) \div 2
         IN  EncodeUtf8(SubSeq(text, 1, half)) \o EncodeUtf8(SubSeq(text, half + 1, Len(text)))

RECURSIVE BitAnd(_, _)
BitAnd(a, b) ==
    IF a = 0 \/ b = 0 THEN 0
    ELSE ((a % 2) * (b % 2)) + (2 * BitAnd(a \div 2, b \div 2))

BitXor(a, b) == (a + b) - (2 * BitAnd(a, b))

WordAnd(x, y) == << BitAnd(x[1], y[1]), BitAnd(x[2], y[2]) >>

WordXor(x, y) == << BitXor(x[1], y[1]), BitXor(x[2], y[2]) >>

WordNot(x) == << 65535 - x[1], 65535 - x[2] >>

\* addition modulo 2^32
WordAdd(x, y) ==
    LET lo == x[2] + y[2]
    IN  << (x[1] + y[1] + (lo \div 65536)) % 65536, lo % 65536 >>

RECURSIVE RotR(_, _)
RotR(x, n) ==
    IF n >= 16 THEN RotR(<< x[2], x[1] >>, n - 16)
    ELSE IF n = 0 THEN x
    ELSE << (x[1] \div (2 ^ n)) + ((x[2] % (2 ^ n)) * (2 ^ (16 - n))),
            (x[2] \div (2 ^ n)) + ((x[1] % (2 ^ n)) * (2 ^ (16 - n))) >>

\* shift right by n < 16
ShR(x, n) ==
    << x[1] \div (2 ^ n), (x[2] \div (2 ^ n)) + ((x[1] % (2 ^ n)) * (2 ^ (16 - n))) >>

Sha256K ==
    <<
       << 17034, 12184 >>, << 28983, 17553 >>, << 46528, 64463 >>, << 59829, 56229 >>,
       << 14678, 49755 >>, << 23025, 4593 >>, << 37439, 33444 >>, << 43804, 24277 >>,
       << 55303, 43672 >>, << 4739, 23297 >>, << 9265, 34238 >>, << 21772, 32195 >>,
       << 29374, 23924 >>, << 32990, 45566 >>, << 39900, 1703 >>, << 49563, 61812 >>,
       << 58523, 27073 >>, << 61374, 18310 >>, << 4033, 40390 >>, << 9228, 41420 >>,
       << 11753, 11375 >>, << 19060, 33962 >>, << 23728, 43484 >>, << 30457, 35034 >>,
       << 38974, 20818 >>, << 43057, 50797 >>, << 45059, 10184 >>, << 48985, 32711 >>,
       << 50912, 3059 >>, << 54695, 37191 >>, << 1738, 25425 >>, << 5161, 10599 >>,
       << 10167, 2693 >>, << 11803, 8504 >>, << 19756, 28156 >>, << 21304, 3347 >>,
       << 25866, 29524 >>, << 30314, 2747 >>, << 33218, 51502 >>, << 37490, 11397 >>,
       << 41663, 59553 >>, << 43034, 26187 >>, << 49739, 35696 >>, << 51052, 20899 >>,
       << 53650, 59417 >>, << 54937, 1572 >>, << 62478, 13701 >>, << 4202, 41072 >>,
       << 6564, 49430 >>, << 7735, 27656 >>, << 10056, 30540 >>, << 13488, 48309 >>,
       << 14620, 3251 >>, << 20184, 43594 >>, << 23452, 51791 >>, << 26670, 28659 >>,
       << 29839, 33518 >>, << 30885, 25455 >>, << 33992, 30740 >>, << 36039, 520 >>,
       << 37054, 65530 >>, << 42064, 27883 >>, << 48889, 41975 >>, << 50801, 30962 >> >>

Sha256H0 ==
    <<
       << 27145, 58983 >>, << 47975, 44677 >>, << 15470, 62322 >>, << 42319, 62778 >>,
       << 20750, 21119 >>, << 39685, 26764 >>, << 8067, 55723 >>, << 23520, 52505 >> >>

\* the message, a 1 bit, zeros up to 56 modulo 64, the bit length on 8 bytes
Sha256Pad(bytes) ==
    LET zeros == (119 - (Len(bytes) % 64)) % 64
        bits  == 8 * Len(bytes)
    IN  bytes \o << 128 >> \o [ i \in 1..zeros |-> 0 ]
              \o << 0, 0, 0, 0, (bits \div 16777216) % 256, (bits \div 65536) % 256,
                    (bits \div 256) % 256, bits % 256 >>

\* the 16 big-endian words of the 64-byte block that starts after offset
BlockWords(bytes, offset) ==
    [ t \in 1..16 |->
        << (256 * bytes[offset + (4 * t) - 3]) + bytes[offset + (4 * t) - 2],
           (256 * bytes[offset + (4 * t) - 1]) + bytes[offset + (4 * t)] >> ]

SmallSigma0(x) == WordXor(WordXor(RotR(x, 7), RotR(x, 18)), ShR(x, 3))

SmallSigma1(x) == WordXor(WordXor(RotR(x, 17), RotR(x, 19)), ShR(x, 10))

BigSigma0(x) == WordXor(WordXor(RotR(x, 2), RotR(x, 13)), RotR(x, 22))

BigSigma1(x) == WordXor(WordXor(RotR(x, 6), RotR(x, 11)), RotR(x, 25))

Ch(e, f, g) == WordXor(WordAnd(e, f), WordAnd(WordNot(e), g))

Maj(a, b, c) == WordXor(WordXor(WordAnd(a, b), WordAnd(a, c)), WordAnd(b, c))

\* the message schedule: the words w extended to n words, by halves
RECURSIVE ScheduleTo(_, _)
ScheduleTo(w, n) ==
    IF Len(w) >= n THEN w
    ELSE IF n = Len(w) + 1
    THEN Append(w, WordAdd(WordAdd(SmallSigma1(w[n - 2]), w[n - 7]),
                           WordAdd(SmallSigma0(w[n - 15]), w[n - 16])))
    ELSE LET first == ScheduleTo(w, (Len(w) + n) \div 2)
         IN  ScheduleTo(first, n)

Schedule(w) == ScheduleTo(w, 64)

\* round t of the compression of one block; s is (a, b, c, d, e, f, g, h)
Round(s, w, t) ==
    LET t1 == WordAdd(WordAdd(WordAdd(s[8], BigSigma1(s[5])), Ch(s[5], s[6], s[7])),
                      WordAdd(Sha256K[t], w[t]))
        t2 == WordAdd(BigSigma0(s[1]), Maj(s[1], s[2], s[3]))
    IN  << WordAdd(t1, t2), s[1], s[2], s[3], WordAdd(s[4], t1), s[5], s[6], s[7] >>

\* rounds from..to in order, by halves; the state is 8 words at every step
RECURSIVE RoundsFromTo(_, _, _, _)
RoundsFromTo(s, w, from, to) ==
    IF Len(s) # 8 THEN << >>
    ELSE IF from = to THEN Round(s, w, from)
    ELSE LET first == RoundsFromTo(s, w, from, (from + to) \div 2)
         IN  RoundsFromTo(first, w, ((from + to) \div 2) + 1, to)

Compress(h, words) ==
    LET s == RoundsFromTo(h, Schedule(words), 1, 64)
    IN  << WordAdd(h[1], s[1]), WordAdd(h[2], s[2]), WordAdd(h[3], s[3]),
           WordAdd(h[4], s[4]), WordAdd(h[5], s[5]), WordAdd(h[6], s[6]),
           WordAdd(h[7], s[7]), WordAdd(h[8], s[8]) >>

RECURSIVE Sha256Blocks(_, _, _)
Sha256Blocks(h, bytes, offset) ==
    IF offset >= Len(bytes) THEN h
    ELSE Sha256Blocks(Compress(h, BlockWords(bytes, offset)), bytes, offset + 64)

\* the digest as 8 words
Sha256(bytes) == Sha256Blocks(Sha256H0, Sha256Pad(bytes), 0)

HexDigits ==
    << "0", "1", "2", "3", "4", "5", "6", "7", "8", "9", "a", "b", "c", "d", "e", "f" >>

\* the 4 lowercase hex characters of a 16-bit number
Hex16(n) ==
    << HexDigits[(n \div 4096) + 1], HexDigits[((n \div 256) % 16) + 1],
       HexDigits[((n \div 16) % 16) + 1], HexDigits[(n % 16) + 1] >>

RECURSIVE HexOfWords(_)
HexOfWords(words) ==
    IF words = << >> THEN << >>
    ELSE Hex16(Head(words)[1]) \o Hex16(Head(words)[2]) \o HexOfWords(Tail(words))

\* hash_obj.hexdigest(): 64 characters
HexDigest(bytes) == HexOfWords(Sha256(bytes))

\* a digest cut after 32 characters
HexDigestPrefix32(hex) == SubSeq(hex, 1, 32)

\* [:24]
HexDigestPrefix(hex) == SubSeq(hex, 1, 24)

\* generate_external_id with the digest computed
generate_external_id_digest(key, emission_type, date) ==
    HexDigestPrefix(HexDigest(EncodeUtf8(key \o Underscore \o emission_type
                                             \o Underscore \o date)))

EmissionsLabel == << "e", "m", "i", "s", "s", "i", "o", "n", "s" >>

EmissionTypePrefix == << "e", "m", "i", "s", "s", "i", "o", "n", "_", "t", "y", "p", "e", "_" >>

\* float(s) for the literals drawn: an optional sign and decimal digits give
\* the number, anything else raises ValueError (ok = FALSE)
RECURSIVE DecimalValue(_, _)
DecimalValue(s, acc) ==
    IF s = << >> THEN acc
    ELSE DecimalValue(Tail(s), 10 * acc + DigitValue[Head(s)])

ParseFloat(s) ==
    LET body == IF s # << >> /\ Head(s) \in { "+", "-" } THEN Tail(s) ELSE s
        ok   == body # << >> /\ \A i \in 1..Len(body) : body[i] \in Digits
        sign == IF s # << >> /\ Head(s) = "-" THEN -1 ELSE 1
    IN  [ ok |-> ok, x |-> IF ok THEN sign * DecimalValue(body, 0) ELSE 0 ]

RECURSIVE Concat(_)
Concat(seqs) ==
    IF seqs = << >> THEN << >> ELSE Head(seqs) \o Concat(Tail(seqs))


(***************************************************************************)
(* read_csv_data and group_data_by_well.                                   *)
(***************************************************************************)
\* one row of csv.reader as the dict read_csv_data appends
RowDict(row) ==
    [ name     |-> Strip(Cell(row, 0)),
      well_key |-> Strip(Cell(row, 1)),
      year     |-> Strip(Cell(row, 2)),
      month    |-> Strip(Cell(row, 3)),
      day      |-> Strip(Cell(row, 4)),
      row_data |-> row ]

\* a column check that is off by one
RowKeptStrict(row) == Len(row) > MinColumns

\* rows with fewer than 21 columns are skipped
RowKept(row) == Len(row) >= MinColumns

\* the header line is read and dropped; every other line is split
read_csv_data(file) ==
    LET rows == [ i \in 1..(Len(file) - 1) |-> SplitComma(file[i + 1]) ]
        kept == SelectSeq(rows, RowKept)
    IN  [ i \in 1..Len(kept) |-> RowDict(kept[i]) ]

\* a grouping that keeps the rows without a key
HasWellKeyAlways(row) == TRUE

\* if well_key: a row with an empty well_key is not grouped
HasWellKey(row) == row.well_key # << >>

\* the keys of a dict, in insertion order
RECURSIVE KeysInOrder(_, _)
KeysInOrder(data, seen) ==
    IF data = << >> THEN << >>
    ELSE LET k == Head(data).well_key
         IN  IF k \in seen
             THEN KeysInOrder(Tail(data), seen)
             ELSE << k >> \o KeysInOrder(Tail(data), seen \cup { k })

\* grouped[well_key].append(row): the dict keeps insertion order
group_data_by_well(data) ==
    LET keyed == SelectSeq(data, HasWellKey)
        keys  == KeysInOrder(keyed, { })
    IN  [ i \in 1..Len(keys) |->
            [ well_key |-> keys[i],
              rows     |-> SelectSeq(keyed, LAMBDA r : r.well_key = keys[i]) ] ]

(***************************************************************************)
(* Properties and convert_properties_to_array.  A properties dict is the   *)
(* sequence of its (key, value) items in insertion order.                  *)
(***************************************************************************)
PropName == << "n", "a", "m", "e" >>

PropDate == << "d", "a", "t", "e" >>

PropVolume == << "v", "o", "l", "u", "m", "e" >>

PropMass == << "m", "a", "s", "s" >>

MetadataSuffix == << "_", "m", "e", "t", "a", "d", "a", "t", "a" >>

StartsWith(s, prefix) ==
    Len(s) >= Len(prefix) /\ SubSeq(s, 1, Len(prefix)) = prefix

EndsWith(s, suffix) ==
    Len(s) >= Len(suffix) /\ SubSeq(s, Len(s) - Len(suffix) + 1, Len(s)) = suffix

\* f"_{prop_type}_metadata"
MetadataKey(prop_type) == Underscore \o prop_type \o MetadataSuffix

Item(k, v) == [ k |-> k, v |-> v ]

HasKey(properties, k) == \E i \in 1..Len(properties) : properties[i].k = k

Lookup(properties, k) ==
    properties[CHOOSE i \in 1..Len(properties) : properties[i].k = k].v

\* value is not None and value != ""
IsPresent(v) == v.t # "none" /\ ~(v.t = "str" /\ v.s = << >>)

PropDict(properties, item) ==
    IF HasKey(properties, MetadataKey(item.k))
    THEN [ type |-> item.k, value |-> item.v,
           metadata |-> Lookup(properties, MetadataKey(item.k)) ]
    ELSE [ type |-> item.k, value |-> item.v ]

RECURSIVE PropsFrom(_, _)
PropsFrom(properties, rest) ==
    IF rest = << >> THEN << >>
    ELSE LET item == Head(rest)
         IN  IF StartsWith(item.k, Underscore) /\ EndsWith(item.k, MetadataSuffix)
             THEN PropsFrom(properties, Tail(rest))
             ELSE IF IsPresent(item.v)
                  THEN << PropDict(properties, item) >> \o PropsFrom(properties, Tail(rest))
                  ELSE PropsFrom(properties, Tail(rest))

convert_properties_to_array(properties) == PropsFrom(properties, properties)

(***************************************************************************)
(* The collection loop of process_emissions_data (lines 323-404).          *)
(***************************************************************************)
\* the stripped cell, or the empty text where the code has None: the code
\* only tests these values for truth, and None and "" are both false
CellText(row_data, i) ==
    IF Len(row_data) > i THEN Strip(Cell(row_data, i)) ELSE << >>

\* float(text) when text is not empty, None when it is empty or unparsable
NumberOrNone(text) ==
    IF text # << >> /\ ParseFloat(text).ok THEN Float(ParseFloat(text).x) ELSE None

Metadata(uom) ==
    [ t |-> "metadata",
      units |-> uom,
      source |-> spreadsheet_name,
      assurance_level |-> AssuranceLevel,
      verified_time |-> verified_time ]

\* metadata attached whether or not the row has a unit
FieldItemsAlwaysMetadata(prop, value, uom) ==
    IF value = None THEN << >>
    ELSE << Item(prop, value), Item(MetadataKey(prop), Metadata(uom)) >>

\* the properties of one reading: the value, then its metadata if it has a unit
FieldItems(prop, value, uom) ==
    IF value = None THEN << >>
    ELSE << Item(prop, value) >>
         \o (IF uom # << >> THEN << Item(MetadataKey(prop), Metadata(uom)) >> ELSE << >>)

\* the date entries one row gives for one emission type: none or one
RowEntries(well_key, emission_type, row) ==
    LET date_str   == create_date_string(row.year, row.month, row.day)
        column_map == get_emission_type_columns(emission_type)
        row_data   == row.row_data
        volume_str == CellText(row_data, column_map.volume)
        volume_uom == CellText(row_data, column_map.volume_uom)
        mass_str   == CellText(row_data, column_map.mass)
        mass_uom   == CellText(row_data, column_map.mass_uom)
        volume     == NumberOrNone(volume_str)
        mass       == NumberOrNone(mass_str)
    IN  IF volume # None \/ mass # None
        THEN << [ well_key      |-> well_key,
                  emission_type |-> emission_type,
                  date          |-> date_str,
                  properties    |-> << Item(PropDate, Str(date_str)) >>
                                    \o FieldItems(PropVolume, volume, volume_uom)
                                    \o FieldItems(PropMass, mass, mass_uom) ] >>
        ELSE << >>

WellEntries(well) ==
    Concat([ t \in 1..Len(emission_types) |->
               Concat([ r \in 1..Len(well.rows) |->
                          RowEntries(well.well_key, emission_types[t], well.rows[r]) ]) ])

EmissionTypeId(well_key, emission_type) ==
    generate_external_id(well_key, EmissionTypePrefix \o emission_type, << >>)

\* well_info, a dict in insertion order: one item per well
WellInfo(wells) ==
    [ i \in 1..Len(wells) |->
        [ well_key     |-> wells[i].well_key,
          name         |-> IF wells[i].rows # << >> THEN wells[i].rows[1].name
                           ELSE wells[i].well_key,
          emissions_id |-> generate_external_id(wells[i].well_key, EmissionsLabel, << >>) ] ]

\* emission_type_ids, a dict in insertion order: wells, then types
EmissionTypeIds(wells) ==
    Concat([ i \in 1..Len(wells) |->
               [ t \in 1..Len(emission_types) |->
                   [ well_key      |-> wells[i].well_key,
                     emission_type |-> emission_types[t],
                     external_id   |-> EmissionTypeId(wells[i].well_key, emission_types[t]) ] ] ])

DateEntries(wells) == Concat([ i \in 1..Len(wells) |-> WellEntries(wells[i]) ])

(***************************************************************************)
(* date_entries.sort(key=(well_key, emission_type, date), reverse=True)    *)
(***************************************************************************)
\* key(a) < key(b) on the tuples, component by component
KeyLess(a, b) ==
    IF a.well_key # b.well_key THEN StrLess(a.well_key, b.well_key)
    ELSE IF a.emission_type # b.emission_type
         THEN StrLess(a.emission_type, b.emission_type)
         ELSE StrLess(a.date, b.date)

\* x goes before the first entry with a smaller key: list.sort is stable,
\* also with reverse=True, so entries with equal keys keep their order
RECURSIVE InsertDescending(_, _)
InsertDescending(x, sorted) ==
    IF sorted = << >> THEN << x >>
    ELSE IF KeyLess(Head(sorted), x) THEN << x >> \o sorted
         ELSE << Head(sorted) >> \o InsertDescending(x, Tail(sorted))

RECURSIVE SortDescending(_, _)
SortDescending(entries, sorted) ==
    IF entries = << >> THEN sorted
    ELSE SortDescending(Tail(entries), InsertDescending(Head(entries), sorted))


(***************************************************************************)
(* The node list (lines 413-447).                                          *)
(***************************************************************************)
TypeWell == << "W", "e", "l", "l" >>

TypeEmissions == << "E", "m", "i", "s", "s", "i", "o", "n", "s" >>

TypeEmissionType == << "E", "m", "i", "s", "s", "i", "o", "n", "T", "y", "p", "e" >>

LabelEmission == << "E", "m", "i", "s", "s", "i", "o", "n" >>

WellNode(info) ==
    [ external_id |-> info.well_key,
      type        |-> TypeWell,
      properties  |-> convert_properties_to_array(<< Item(PropName, Str(info.name)) >>) ]

EmissionsNode(info) ==
    [ external_id |-> info.emissions_id,
      type        |-> TypeEmissions,
      properties  |-> convert_properties_to_array(<< Item(PropName, Str(TypeEmissions)) >>) ]

EmissionTypeNode(e) ==
    [ external_id |-> e.external_id,
      type        |-> TypeEmissionType,
      properties  |-> convert_properties_to_array(<< Item(PropName, Str(e.emission_type)) >>) ]

ReadingId(entry) ==
    generate_external_id(entry.well_key, entry.emission_type, entry.date)

ReadingNode(entry) ==
    [ external_id |-> ReadingId(entry),
      type        |-> entry.emission_type,
      labels      |-> << LabelEmission >>,
      properties  |-> convert_properties_to_array(entry.properties) ]

\* Well nodes, Emissions nodes, EmissionType nodes, then one node per entry
BuildNodes(info, type_ids, entries) ==
    [ i \in 1..Len(info) |-> WellNode(info[i]) ]
    \o [ i \in 1..Len(info) |-> EmissionsNode(info[i]) ]
    \o [ i \in 1..Len(type_ids) |-> EmissionTypeNode(type_ids[i]) ]
    \o [ i \in 1..Len(entries) |-> ReadingNode(entries[i]) ]

(***************************************************************************)
(* The relationship list (lines 464-530).                                  *)
(***************************************************************************)
End(type, external_id) == [ type |-> type, external_id |-> external_id ]

Rel(source, target, type) == [ source |-> source, target |-> target, type |-> type ]

EmissionsIdOf(info, well_key) ==
    info[CHOOSE i \in 1..Len(info) : info[i].well_key = well_key].emissions_id

TypeIdOf(type_ids, well_key, emission_type) ==
    type_ids[CHOOSE i \in 1..Len(type_ids) :
                 /\ type_ids[i].well_key = well_key
                 /\ type_ids[i].emission_type = emission_type].external_id

HasEmissionsRel(info) ==
    Rel(End(TypeWell, info.well_key), End(TypeEmissions, info.emissions_id), "HAS_EMISSIONS")

\* a HAS_TYPE edge drawn from the Well instead of its Emissions node
HasTypeRelFromWell(info, e) ==
    Rel(End(TypeWell, e.well_key), End(TypeEmissionType, e.external_id), "HAS_TYPE")

HasTypeRel(info, e) ==
    Rel(End(TypeEmissions, EmissionsIdOf(info, e.well_key)),
        End(TypeEmissionType, e.external_id), "HAS_TYPE")

\* the loop over date_entries: current_groups maps (well_key, emission_type)
\* to the node the next entry of that group is linked from
RECURSIVE ChainRels(_, _, _)
ChainRels(entries, type_ids, current_groups) ==
    IF entries = << >> THEN << >>
    ELSE LET entry        == Head(entries)
             key          == << entry.well_key, entry.emission_type >>
             date_node_id == ReadingId(entry)
             rel == IF key \notin DOMAIN current_groups
                    THEN Rel(End(TypeEmissionType,
                                 TypeIdOf(type_ids, entry.well_key, entry.emission_type)),
                             End(entry.emission_type, date_node_id), "HAS_DATA")
                    ELSE Rel(End(entry.emission_type, current_groups[key]),
                             End(entry.emission_type, date_node_id), "NEXT_DATE")
             groups == [ k \in DOMAIN current_groups \cup { key } |->
                           IF k = key THEN date_node_id ELSE current_groups[k] ]
         IN  << rel >> \o ChainRels(Tail(entries), type_ids, groups)

BuildRelationships(info, type_ids, entries) ==
    [ i \in 1..Len(info) |-> HasEmissionsRel(info[i]) ]
    \o [ i \in 1..Len(type_ids) |-> HasTypeRel(info, type_ids[i]) ]
    \o ChainRels(entries, type_ids, << >>)


(***************************************************************************)
(* Inputs: files as sequences of text lines.                               *)
(***************************************************************************)
CsvFilePath == << "d", "a", "t", "a", "/", "w", "e", "l", "l", "s", ".", "c", "s", "v" >>

RECURSIVE JoinComma(_)
JoinComma(cells) ==
    IF Len(cells) = 1 THEN cells[1]
    ELSE cells[1] \o << "," >> \o JoinComma(Tail(cells))

HeaderLine == << "n", "a", "m", "e", ",", "k", "e", "y", ",", "y", "e", "a", "r", ",", "m", "o", "n", "t", "h", ",", "d", "a", "y" >>

\* the data row of the end-to-end example, as printed: 20 columns
ExampleLine ==
    << "W", "e", "l", "l", "A", ",", "W", "1", ",", "2", "0", "2", "4",
       ",", "3", ",", "1", "5", ",", "1", "0", "0", ",", "b", "b", "l",
       ",", ",", ",", ",", ",", ",", ",", ",", ",", ",", "5", "0", ",",
       "s", "c", "f", ",", "," >>

\* the same row with a twenty-first column
ExampleLine21 ==
    << "W", "e", "l", "l", "A", ",", "W", "1", ",", "2", "0", "2", "4",
       ",", "3", ",", "1", "5", ",", "1", "0", "0", ",", "b", "b", "l",
       ",", ",", ",", ",", ",", ",", ",", ",", ",", ",", "5", "0", ",",
       "s", "c", "f", ",", ",", "," >>

WellA == << "W", "e", "l", "l", "A" >>

WellB == << "W", "e", "l", "l", "B" >>

W1 == << "W", "1" >>

W1Padded == << " ", "W", "1" >>

W2 == << "W", "2" >>

Y2024 == << "2", "0", "2", "4" >>

Y999 == << "9", "9", "9" >>

\* a line of 21 columns: five leading cells, then columns 5..20 from cells,
\* a function from column index to text (columns it leaves out are empty)
Line(name, key, year, month, day, cells) ==
    JoinComma(<< name, key, year, month, day >>
              \o [ i \in 1..16 |-> IF (i + 4) \in DOMAIN cells THEN cells[i + 4] ELSE << >> ])

NoCells == [ i \in { } |-> << >> ]

FlaringVolume == (5 :> << "1", "0", "0" >>) @@ (6 :> << "b", "b", "l" >>)

FlaringMass == (7 :> << "5", "0" >>) @@ (8 :> << "k", "g" >>)

FuelGasMass == (19 :> << "7" >>) @@ (20 :> << "k", "g" >>)

NoDataLine == Line(WellA, W1, Y2024, << "3" >>, << "1", "5" >>, NoCells)

\* a row of 21 columns without a well key
NoKeyLine == Line(WellB, << >>, Y2024, << "3" >>, << "1", "5" >>, FlaringVolume)

\* a row whose only cell for a number is not a number
UnparsableLine ==
    Line(WellB, W2, Y2024, << "3" >>, << "1", "5" >>, (5 :> << "a", "b", "c" >>))

\* Rows for the builder: two wells, a key that needs stripping, the same day
\* written as 3 and as 03, a three-digit year, a row without a key, and a row
\* of 20 columns.
StructureRows ==
    { ExampleLine21,
      Line(WellA, W1, Y2024, << "1", "2" >>, << "1" >>, FlaringVolume @@ FuelGasMass),
      Line(WellA, W1Padded, Y2024, << "0", "3" >>, << "1", "5" >>, FlaringMass),
      Line(WellA, W1, Y999, << "1" >>, << "1" >>, FlaringVolume),
      Line(WellB, W2, Y2024, << "3" >>, << "1", "5" >>, FlaringVolume),
      NoKeyLine,
      ExampleLine }

\* Rows for the batches: one or two wells with one to three readings
BatchRows ==
    { ExampleLine21,
      Line(WellA, W1, Y2024, << "1", "2" >>, << "1" >>, FlaringVolume @@ FuelGasMass),
      Line(WellB, W2, Y2024, << "3" >>, << "1", "5" >>, FlaringVolume) }

\* the texts drawn for a volume or mass cell, and for a unit cell
NumberTexts == { << >>, << "1", "0", "0" >>, << "a", "b", "c" >>, << " " >>, << " ", "7", " " >> }

UnitTexts == { << >>, << "b", "b", "l" >>, << " " >> }

\* one row that fills the four columns of one emission type
CellRows ==
    { Line(WellA, W1, Y2024, << "3" >>, << "1", "5" >>,
           (get_emission_type_columns(emission_types[t]).volume :> v)
           @@ (get_emission_type_columns(emission_types[t]).volume_uom :> vu)
           @@ (get_emission_type_columns(emission_types[t]).mass :> m)
           @@ (get_emission_type_columns(emission_types[t]).mass_uom :> mu)) :
        t \in 1..Len(emission_types), v \in NumberTexts, vu \in UnitTexts,
        m \in NumberTexts, mu \in UnitTexts }

SeqsUpTo(S, n) == UNION { [ 1..k -> S ] : k \in 0..n }

\* the files drawn for the builder
BuildFiles ==
    { << HeaderLine >> \o rows : rows \in SeqsUpTo(StructureRows, MaxRows) }
    \cup { << HeaderLine, row >> : row \in CellRows }

\* the files drawn for the whole program: no data row (nothing to send), a
\* well without readings (6 nodes, 5 relationships), a well with one reading
\* (7 nodes, 6 relationships), and a file of rows that give nothing: no key,
\* 20 columns, no number
DispatchFiles ==
    { << HeaderLine >>, << HeaderLine, NoDataLine >>, << HeaderLine, ExampleLine21 >>,
      << HeaderLine, NoKeyLine, ExampleLine, UnparsableLine >> }

Rounds == { "nodes", "relationships" }

\* a value of INDYKITE_TOKEN, and the default of INDYKITE_HOST
Token == << "t", "o", "k", "e", "n" >>

DefaultHost ==
    << "h", "t", "t", "p", "s", ":", "/", "/", "a", "p", "i", ".",
       "i", "n", "d", "y", "k", "i", "t", "e", ".", "c", "o", "m" >>

\* no file is read
NoFile == [ state |-> "none" ]

\* the arguments and the locals of process_emissions_data before it runs
InitLoader(file, bs, mt, dbg) ==
    /\ csv_file = file
    /\ batch_size = bs
    /\ max_threads = mt
    /\ DEBUG_MODE = dbg
    /\ actual_batch_size = 0
    /\ actual_max_threads = 0
    /\ spreadsheet_name = << >>
    /\ verified_time = 0
    /\ csv_data = << >>
    /\ wells_data = << >>
    /\ well_info = << >>
    /\ emission_type_ids = << >>
    /\ date_entries = << >>
    /\ all_nodes = << >>
    /\ all_relationships = << >>
    /\ batches = [ r \in Rounds |-> << >> ]
    /\ max_workers = [ r \in Rounds |-> 0 ]
    /\ submitted = [ r \in Rounds |-> 0 ]
    /\ queue = [ r \in Rounds |-> << >> ]
    /\ inflight = [ r \in Rounds |-> { } ]
    /\ future = [ r \in Rounds |-> << >> ]
    /\ yielded = [ r \in Rounds |-> { } ]
    /\ completed = 0
    /\ failed = 0
    /\ calls = [ r \in Rounds |-> << >> ]
    /\ raised = [ r \in Rounds |-> { } ]
    /\ posts = [ r \in Rounds |-> 0 ]
    /\ clock = 1
    /\ run = 1
    /\ prev_nodes = << >>
    /\ prev_relationships = << >>
    /\ printed = { }

\* the environment of a tool and whether its input file exists
InitEnv(token, host, exists) ==
    /\ INDYKITE_TOKEN = token
    /\ INDYKITE_HOST = host
    /\ file_exists = exists

\* generate_external_id is not called on its own
InitHashIdle ==
    /\ hash_key = << >>
    /\ hash_category = << >>
    /\ hash_date = << >>
    /\ hash_result = << >>

\* post_nodes_rels.py is not run
InitReplayIdle ==
    /\ args_ok = TRUE
    /\ type_arg = { }
    /\ json_file = NoFile
    /\ json_data = None
    /\ data_type = { }
    /\ posted = << >>
    /\ exit_status = { }

\* process_emissions_data is called with a token, on a file that exists
InitWith(file, bs, mt, dbg) ==
    /\ pc = "start"
    /\ InitLoader(file, bs, mt, dbg)
    /\ InitEnv(Str(Token), Str(DefaultHost), TRUE)
    /\ InitHashIdle
    /\ InitReplayIdle

(***************************************************************************)
(* What the operator sees: the warnings and errors printed to stdout and   *)
(* stderr, each with the text, the round and the batch number it is about. *)
(***************************************************************************)
Report(kind) == [ kind |-> kind, round |-> "", line |-> << >>, batch |-> 0 ]

RowReport(kind, line) == [ kind |-> kind, round |-> "", line |-> line, batch |-> 0 ]

BatchReport(kind, r, c) == [ kind |-> kind, round |-> r, line |-> << >>, batch |-> c ]

\* read_csv_data, lines 208-210: the warning for each row it skips
ShortRowWarnings(file) ==
    { RowReport("fewer_than_21_columns", file[i]) :
        i \in { k \in 2..Len(file) : ~RowKept(SplitComma(file[k])) } }

\* lines 355-368: the warning for each volume or mass that is not a number
UnparsableWarnings(wells) ==
    UNION { UNION { UNION {
        LET column_map == get_emission_type_columns(emission_types[t])
            row_data   == wells[i].rows[r].row_data
            volume_str == CellText(row_data, column_map.volume)
            mass_str   == CellText(row_data, column_map.mass)
        IN  (IF volume_str # << >> /\ ~ParseFloat(volume_str).ok
             THEN { RowReport("could_not_convert_volume", volume_str) } ELSE { })
            \cup
            (IF mass_str # << >> /\ ~ParseFloat(mass_str).ok
             THEN { RowReport("could_not_convert_mass", mass_str) } ELSE { })
        : r \in 1..Len(wells[i].rows) }
        : t \in 1..Len(emission_types) }
        : i \in 1..Len(wells) }

(***************************************************************************)
(* process_emissions_data, up to the two lists (lines 286-532).            *)
(***************************************************************************)
ArgOr(arg, default) == IF arg = { } THEN default ELSE CHOOSE n \in arg : TRUE

Start ==
    /\ pc = "start"
    /\ actual_batch_size' = ArgOr(batch_size, BATCH_SIZE)
    /\ actual_max_threads' = ArgOr(max_threads, MAX_THREADS)
    /\ spreadsheet_name' = Basename(CsvFilePath)
    /\ verified_time' = clock
    /\ pc' = "read"
    /\ UNCHANGED << argVars, csv_data, wells_data, well_info, emission_type_ids,
                    date_entries, all_nodes, all_relationships, poolVars, rerunVars, printed, besideVars >>

ReadCsv ==
    /\ pc = "read"
    /\ csv_data' = read_csv_data(csv_file)
    /\ printed' = printed \cup ShortRowWarnings(csv_file)
    /\ pc' = "group"
    /\ UNCHANGED << argVars, actual_batch_size, actual_max_threads, spreadsheet_name,
                    verified_time, wells_data, well_info, emission_type_ids,
                    date_entries, all_nodes, all_relationships, poolVars, rerunVars, besideVars >>

GroupByWell ==
    /\ pc = "group"
    /\ wells_data' = group_data_by_well(csv_data)
    /\ pc' = "collect"
    /\ UNCHANGED << argVars, actual_batch_size, actual_max_threads, spreadsheet_name,
                    verified_time, csv_data, well_info, emission_type_ids,
                    date_entries, all_nodes, all_relationships, poolVars, rerunVars, printed, besideVars >>

CollectEntries ==
    /\ pc = "collect"
    /\ well_info' = WellInfo(wells_data)
    /\ emission_type_ids' = EmissionTypeIds(wells_data)
    /\ date_entries' = DateEntries(wells_data)
    /\ printed' = printed \cup UnparsableWarnings(wells_data)
    /\ pc' = "sort"
    /\ UNCHANGED << argVars, actual_batch_size, actual_max_threads, spreadsheet_name,
                    verified_time, csv_data, wells_data,
                    all_nodes, all_relationships, poolVars, rerunVars, besideVars >>

SortEntries ==
    /\ pc = "sort"
    /\ date_entries' = SortDescending(date_entries, << >>)
    /\ pc' = "build_nodes"
    /\ UNCHANGED << argVars, actual_batch_size, actual_max_threads, spreadsheet_name,
                    verified_time, csv_data, wells_data, well_info, emission_type_ids,
                    all_nodes, all_relationships, poolVars, rerunVars, printed, besideVars >>

BuildNodeList ==
    /\ pc = "build_nodes"
    /\ all_nodes' = BuildNodes(well_info, emission_type_ids, date_entries)
    /\ pc' = "build_relationships"
    /\ UNCHANGED << argVars, actual_batch_size, actual_max_threads, spreadsheet_name,
                    verified_time, csv_data, wells_data, well_info, emission_type_ids,
                    date_entries, all_relationships, poolVars, rerunVars, printed, besideVars >>

BuildRelationshipList ==
    /\ pc = "build_relationships"
    /\ all_relationships' = BuildRelationships(well_info, emission_type_ids, date_entries)
    /\ pc' = "node_batches"
    /\ UNCHANGED << argVars, actual_batch_size, actual_max_threads, spreadsheet_name,
                    verified_time, csv_data, wells_data, well_info, emission_type_ids,
                    date_entries, all_nodes, poolVars, rerunVars, printed, besideVars >>

\* the tool is run again on the same file: the lists of the first run are
\* kept for comparison, the clock has moved on
Rerun ==
    /\ pc = "node_batches"
    /\ run = 1
    /\ run' = 2
    /\ prev_nodes' = all_nodes
    /\ prev_relationships' = all_relationships
    /\ clock' = clock + 1
    /\ pc' = "start"
    /\ actual_batch_size' = 0
    /\ actual_max_threads' = 0
    /\ spreadsheet_name' = << >>
    /\ verified_time' = 0
    /\ csv_data' = << >>
    /\ wells_data' = << >>
    /\ well_info' = << >>
    /\ emission_type_ids' = << >>
    /\ date_entries' = << >>
    /\ all_nodes' = << >>
    /\ all_relationships' = << >>
    /\ UNCHANGED << argVars, poolVars, printed, besideVars >>

(***************************************************************************)
(* Batching (lines 551-557 and 595-601).                                   *)
(***************************************************************************)
Min(a, b) == IF a <= b THEN a ELSE b

\* range(start, stop, step) for step >= 1
RECURSIVE Range(_, _, _)
Range(start, stop, step) ==
    IF start >= stop THEN << >>
    ELSE << start >> \o Range(start + step, stop, step)

\* items[i:j] for 0 <= i, clipped at the end of the list as Python slices are
Slice(items, i, j) == SubSeq(items, i + 1, Min(j, Len(items)))

\* a slice that stops one item early
BatchSliceShort(items, i, size) == Slice(items, i, i + size - 1)

BatchSlice(items, i, size) == Slice(items, i, i + size)

Batches(items, size) ==
    LET starts == Range(0, Len(items), size)
    IN  [ n \in 1..Len(starts) |->
            [ batch_num     |-> (starts[n] \div size) + 1,
              total_batches |-> (Len(items) + size - 1) \div size,
              batch         |-> BatchSlice(items, starts[n], size) ] ]

(***************************************************************************)
(* A dispatch round (lines 559-586 for nodes, 603-630 for relationships):  *)
(* the main thread submits every batch to a ThreadPoolExecutor, collects   *)
(* the futures as they complete, and leaves the with block.  Worker        *)
(* threads run process_batch, which calls the sink and catches what it     *)
(* raises.                                                                 *)
(***************************************************************************)
Items(r) == IF r = "nodes" THEN all_nodes ELSE all_relationships

BatchesPc(r) == IF r = "nodes" THEN "node_batches" ELSE "relationship_batches"

SubmitPc(r) == IF r = "nodes" THEN "nodes_submit" ELSE "relationships_submit"

CollectPc(r) == IF r = "nodes" THEN "nodes_collect" ELSE "relationships_collect"

\* a node round that ends the run when one of its batches failed
AfterPcStoppingOnFailure(r) ==
    IF r = "nodes" /\ failed = 0 THEN "relationship_batches" ELSE "done"

\* the relationship round follows the node round whatever its tallies
AfterPc(r) == IF r = "nodes" THEN "relationship_batches" ELSE "done"

NumBatches(r) == Len(batches[r])

\* a pool with one thread per batch whenever there are more batches than threads
MaxWorkersPerBatch(threads, n) == IF threads >= n THEN threads ELSE n

\* max_workers = min(actual_max_threads, len(batches))
MaxWorkers(threads, n) == Min(threads, n)

Unsubmitted == [ state |-> "unsubmitted", success |-> FALSE ]

Pending == [ state |-> "pending", success |-> FALSE ]

Running == [ state |-> "running", success |-> FALSE ]

\* a process_batch that reports success whatever the sink did
process_batch_always_true(sink_raised) == [ state |-> "done", success |-> TRUE ]

\* the future of process_batch once it has returned (batch_num, success, message):
\* True when the sink returned, False when it raised
process_batch(sink_raised) == [ state |-> "done", success |-> ~sink_raised ]

\* total == 0: the round is skipped
SkipRound(r) ==
    /\ pc = BatchesPc(r)
    /\ Len(Items(r)) = 0
    /\ printed' = printed \cup { BatchReport("nothing_to_create", r, 0) }
    /\ pc' = AfterPc(r)
    /\ UNCHANGED << argVars, actual_batch_size, actual_max_threads, buildVars,
                    poolVars, rerunVars, besideVars >>

\* the batches are prepared and the pool is created
PrepareBatches(r) ==
    /\ pc = BatchesPc(r)
    /\ Len(Items(r)) # 0
    /\ LET bs == Batches(Items(r), actual_batch_size)
       IN  /\ batches' = [ batches EXCEPT ![r] = bs ]
           /\ max_workers' = [ max_workers EXCEPT
                                 ![r] = MaxWorkers(actual_max_threads, Len(bs)) ]
           /\ future' = [ future EXCEPT ![r] = [ c \in 1..Len(bs) |-> Unsubmitted ] ]
           /\ calls' = [ calls EXCEPT ![r] = [ c \in 1..Len(bs) |-> 0 ] ]
    /\ pc' = SubmitPc(r)
    /\ UNCHANGED << argVars, actual_batch_size, actual_max_threads, buildVars,
                    submitted, queue, inflight, yielded, completed, failed,
                    raised, posts, rerunVars, printed, besideVars >>

\* executor.submit(process_batch, ...) for the next batch of the list
Submit(r) ==
    /\ pc = SubmitPc(r)
    /\ submitted[r] < NumBatches(r)
    /\ LET c == submitted[r] + 1
       IN  /\ submitted' = [ submitted EXCEPT ![r] = c ]
           /\ queue' = [ queue EXCEPT ![r] = Append(@, c) ]
           /\ future' = [ future EXCEPT ![r][c] = Pending ]
    /\ UNCHANGED << pc, argVars, actual_batch_size, actual_max_threads, buildVars,
                    batches, max_workers, inflight, yielded, completed, failed,
                    calls, raised, posts, rerunVars, printed, besideVars >>

\* every batch is submitted: completed = 0, failed = 0, as_completed starts
BeginCollect(r) ==
    /\ pc = SubmitPc(r)
    /\ submitted[r] = NumBatches(r)
    /\ completed' = 0
    /\ failed' = 0
    /\ pc' = CollectPc(r)
    /\ UNCHANGED << argVars, actual_batch_size, actual_max_threads, buildVars,
                    batches, max_workers, submitted, queue, inflight, future,
                    yielded, calls, raised, posts, rerunVars, printed, besideVars >>

Workers(r) == 1..max_workers[r]

\* a pool thread runs one work item at a time
WorkerIdle(r, w) == \A p \in inflight[r] : p[1] # w

\* a sink that posts whatever DEBUG_MODE says
SendsRequestAlways == TRUE

\* create_nodes_batch and create_relationships_batch return before
\* requests.post when DEBUG_MODE is set (lines 94-96 and 149-151)
SendsRequest == ~DEBUG_MODE

\* an idle pool thread takes the oldest queued batch and calls the sink:
\* create_nodes_batch or create_relationships_batch, which POSTs unless
\* DEBUG_MODE is set
WorkerTake(r, w) ==
    /\ w \in Workers(r)
    /\ WorkerIdle(r, w)
    /\ queue[r] # << >>
    /\ LET c == Head(queue[r])
       IN  /\ queue' = [ queue EXCEPT ![r] = Tail(@) ]
           /\ inflight' = [ inflight EXCEPT ![r] = @ \cup { << w, c >> } ]
           /\ future' = [ future EXCEPT ![r][c] = Running ]
           /\ calls' = [ calls EXCEPT ![r][c] = @ + 1 ]
           /\ posts' = [ posts EXCEPT ![r] = IF SendsRequest THEN @ + 1 ELSE @ ]
    /\ UNCHANGED << pc, argVars, actual_batch_size, actual_max_threads, buildVars,
                    batches, max_workers, submitted, yielded, completed, failed,
                    raised, rerunVars, printed, besideVars >>

\* the sink returns: the POST succeeded, or DEBUG_MODE skipped it
SinkReturns(r, w) ==
    /\ \E p \in inflight[r] :
         /\ p[1] = w
         /\ inflight' = [ inflight EXCEPT ![r] = @ \ { p } ]
         /\ future' = [ future EXCEPT ![r][p[2]] = process_batch(FALSE) ]
    /\ UNCHANGED << pc, argVars, actual_batch_size, actual_max_threads, buildVars,
                    batches, max_workers, submitted, queue, yielded, completed,
                    failed, calls, raised, posts, rerunVars, printed, besideVars >>

\* the sink raises: transport failure, error status or undecodable body;
\* process_batch catches it
SinkRaises(r, w) ==
    /\ SendsRequest
    /\ \E p \in inflight[r] :
         /\ p[1] = w
         /\ inflight' = [ inflight EXCEPT ![r] = @ \ { p } ]
         /\ future' = [ future EXCEPT ![r][p[2]] = process_batch(TRUE) ]
         /\ raised' = [ raised EXCEPT ![r] = @ \cup { p[2] } ]
         /\ printed' = printed \cup { BatchReport("failed_payload", r, p[2]) }
    /\ UNCHANGED << pc, argVars, actual_batch_size, actual_max_threads, buildVars,
                    batches, max_workers, submitted, queue, yielded, completed,
                    failed, calls, posts, rerunVars, besideVars >>

\* as_completed hands out a finished future and the loop body tallies it
Tally(r) ==
    /\ pc = CollectPc(r)
    /\ \E c \in 1..NumBatches(r) :
         /\ c \notin yielded[r]
         /\ future[r][c].state = "done"
         /\ yielded' = [ yielded EXCEPT ![r] = @ \cup { c } ]
         /\ IF future[r][c].success
            THEN completed' = completed + 1 /\ failed' = failed
            ELSE failed' = failed + 1 /\ completed' = completed
         /\ printed' =
              IF future[r][c].success THEN printed
              ELSE printed \cup { BatchReport("batch_failed", r, c) }
    /\ UNCHANGED << pc, argVars, actual_batch_size, actual_max_threads, buildVars,
                    batches, max_workers, submitted, queue, inflight, future,
                    calls, raised, posts, rerunVars, besideVars >>

\* a loop that does not wait for the futures
AllCollectedNoWait(r) == TRUE

\* as_completed is exhausted once every future was handed out
AllCollected(r) == \A c \in 1..NumBatches(r) : c \in yielded[r]

\* the loop ends and the with block is left (shutdown waits for the threads)
EndRound(r) ==
    /\ pc = CollectPc(r)
    /\ AllCollected(r)
    /\ pc' = AfterPc(r)
    /\ UNCHANGED << argVars, actual_batch_size, actual_max_threads, buildVars,
                    poolVars, rerunVars, printed, besideVars >>

(***************************************************************************)
(* The whole program.                                                      *)
(***************************************************************************)
\* batch sizes drawn: None (the default of 250) and 2..MaxBatchSize
BatchSizeArgs == { { } } \cup { { n } : n \in 2..MaxBatchSize }

ThreadArgs == { { n } : n \in 1..MaxThreads }

Init ==
    \E file \in DispatchFiles, bs \in BatchSizeArgs, mt \in ThreadArgs, dbg \in BOOLEAN :
        InitWith(file, bs, mt, dbg)

Next ==
    \/ Start
    \/ ReadCsv
    \/ GroupByWell
    \/ CollectEntries
    \/ SortEntries
    \/ BuildNodeList
    \/ BuildRelationshipList
    \/ \E r \in Rounds : SkipRound(r)
    \/ \E r \in Rounds : PrepareBatches(r)
    \/ \E r \in Rounds : Submit(r)
    \/ \E r \in Rounds : BeginCollect(r)
    \/ \E r \in Rounds : \E w \in Workers(r) : WorkerTake(r, w)
    \/ \E r \in Rounds : \E w \in Workers(r) : SinkReturns(r, w)
    \/ \E r \in Rounds : \E w \in Workers(r) : SinkRaises(r, w)
    \/ \E r \in Rounds : Tally(r)
    \/ \E r \in Rounds : EndRound(r)

Spec == Init /\ [][Next]_vars

(***************************************************************************)
(* The builder alone, on more files: process_emissions_data up to its      *)
(* node batches, and a second run over the same file.                      *)
(***************************************************************************)
\* the files drawn with an explicit batch size
BatchFiles ==
    { << HeaderLine >> \o rows : rows \in SeqsUpTo(BatchRows, MaxBatchRows) }

InitBuild ==
    \/ \E file \in BuildFiles : InitWith(file, { }, { }, FALSE)
    \/ \E file \in BatchFiles, n \in 1..MaxBatchSize : InitWith(file, { n }, { }, FALSE)

NextBuild ==
    \/ Start
    \/ ReadCsv
    \/ GroupByWell
    \/ CollectEntries
    \/ SortEntries
    \/ BuildNodeList
    \/ BuildRelationshipList
    \/ PrepareBatches("nodes")
    \/ Rerun

SpecBuild == InitBuild /\ [][NextBuild]_vars

(***************************************************************************)
(* Properties of the dispatch rounds.                                      *)
(***************************************************************************)
\* round r was run and its with block has been left, the tallies still being
\* those of r
RoundOver(r) ==
    /\ NumBatches(r) > 0
    /\ IF r = "nodes"
       THEN pc \in { "relationship_batches", "relationships_submit" }
       ELSE pc = "done"

\* C1: in a dispatch round over k batches, whichever batches' sink calls
\* raise and however the completions interleave, no batch is given to the
\* sink twice, and when the round is over every batch was given to the sink
\* exactly once, completed = k - |F|, failed = |F| and completed + failed = k,
\* F being the batches whose sink call raised.
C1_TalliesMatchSinkOutcomes ==
    \A r \in Rounds :
        /\ \A c \in 1..NumBatches(r) : calls[r][c] <= 1
        /\ RoundOver(r) =>
             /\ \A c \in 1..NumBatches(r) : calls[r][c] = 1
             /\ completed = NumBatches(r) - Cardinality(raised[r])
             /\ failed = Cardinality(raised[r])
             /\ completed + failed = NumBatches(r)

\* three node batches, the second of which raised: completed = 2, failed = 1
C1_Witness ==
    /\ RoundOver("nodes")
    /\ NumBatches("nodes") = 3
    /\ raised["nodes"] = { 2 }
    /\ completed = 2
    /\ failed = 1

\* C2: no relationship batch is given to the sink, and no POST to the
\* relationships endpoint is issued, before every node batch of the run has
\* resolved (its future is done, the sink having returned or raised).
C2_RelationshipsAfterNodes ==
    (posts["relationships"] > 0
       \/ \E c \in 1..NumBatches("relationships") : calls["relationships"][c] > 0)
    => \A d \in 1..NumBatches("nodes") : future["nodes"][d].state = "done"

\* a relationship POST is under way after a node round of several batches,
\* one of which failed
C2_Witness ==
    /\ posts["relationships"] > 0
    /\ inflight["relationships"] # { }
    /\ NumBatches("nodes") >= 2
    /\ raised["nodes"] # { }

\* C3: in a dispatch round with k >= 1 batches and max_threads m >= 1, the
\* sink calls in flight never number more than min(m, k), and no worker has
\* two sink calls in flight.
C3_InFlightBounded ==
    \A r \in Rounds :
        /\ Cardinality(inflight[r])
             <= (IF actual_max_threads <= NumBatches(r)
                 THEN actual_max_threads ELSE NumBatches(r))
        /\ \A p, q \in inflight[r] : p[1] = q[1] => p = q

\* the pool is saturated: m calls in flight, m >= 2, and a batch still queued
C3_Witness ==
    \E r \in Rounds :
        /\ actual_max_threads >= 2
        /\ Cardinality(inflight[r]) = actual_max_threads
        /\ queue[r] # << >>

\* the least q with q * b >= n
CeilDiv(n, b) == CHOOSE q \in 0..n : q * b >= n /\ (q - 1) * b < n

\* C4: for a list of n >= 1 items and a batch size b >= 1, the batches are
\* slices whose concatenation in order is the list; there are ceil(n/b) of
\* them, each of 1 to b items, all but the last of exactly b items, and batch
\* i carries batch_num = i and total_batches = ceil(n/b).
C4_BatchesPartitionItems ==
    \A r \in Rounds :
        NumBatches(r) > 0 =>
            LET bs == batches[r]
                n  == Len(Items(r))
                b  == actual_batch_size
            IN  /\ Concat([ i \in 1..Len(bs) |-> bs[i].batch ]) = Items(r)
                /\ Len(bs) = CeilDiv(n, b)
                /\ \A i \in 1..Len(bs) :
                     /\ Len(bs[i].batch) >= 1
                     /\ Len(bs[i].batch) <= b
                     /\ i < Len(bs) => Len(bs[i].batch) = b
                     /\ bs[i].batch_num = i
                     /\ bs[i].total_batches = CeilDiv(n, b)

\* at least three batches, the last one short
C4_Witness ==
    \E r \in Rounds :
        /\ NumBatches(r) >= 3
        /\ actual_batch_size >= 2
        /\ Len(batches[r][NumBatches(r)].batch) < actual_batch_size

(***************************************************************************)
(* Properties of the builder.                                              *)
(***************************************************************************)
\* the node list and the relationship list are built
Built ==
    pc \notin { "start", "read", "group", "collect", "sort",
                "build_nodes", "build_relationships" }

\* the Reading node of date_entries[i]: Reading nodes follow the Well,
\* Emissions and EmissionType nodes, one per entry, in entry order
ReadingNodeAt(i) == all_nodes[2 * Len(well_info) + Len(emission_type_ids) + i]

\* the entries of one (well, type)
GroupEntries(well_key, emission_type) ==
    { i \in 1..Len(date_entries) :
        /\ date_entries[i].well_key = well_key
        /\ date_entries[i].emission_type = emission_type }

GroupIds(well_key, emission_type) ==
    { ReadingNodeAt(i).external_id : i \in GroupEntries(well_key, emission_type) }

RelsOfType(type) ==
    { j \in 1..Len(all_relationships) : all_relationships[j].type = type }

\* the nodes met from cur along the edges of nx, at most fuel of them
RECURSIVE Walk(_, _, _)
Walk(cur, nx, fuel) ==
    IF fuel = 0 THEN << >>
    ELSE << cur >>
         \o (IF \E j \in nx : all_relationships[j].source.external_id = cur
             THEN Walk(all_relationships[
                           CHOOSE j \in nx : all_relationships[j].source.external_id = cur
                       ].target.external_id, nx, fuel - 1)
             ELSE << >>)

\* C5: for every (well, type) with n surviving readings: if n = 0 there is
\* no HAS_DATA edge from its EmissionType; if n >= 1 there is exactly one, and
\* exactly n - 1 NEXT_DATE edges, and HAS_DATA followed by the NEXT_DATE edges
\* is a single chain that visits every Reading of the (well, type) exactly
\* once: no branch, no cycle, no NEXT_DATE edge from a node to itself.
C5_SingleChainPerGroup ==
    Built =>
      \A e \in 1..Len(emission_type_ids) :
        LET key == emission_type_ids[e].well_key
            typ == emission_type_ids[e].emission_type
            n   == Cardinality(GroupEntries(key, typ))
            ids == GroupIds(key, typ)
            hd  == { j \in RelsOfType("HAS_DATA") :
                       all_relationships[j].source.external_id
                         = emission_type_ids[e].external_id }
            nx  == { j \in RelsOfType("NEXT_DATE") :
                       \/ all_relationships[j].source.external_id \in ids
                       \/ all_relationships[j].target.external_id \in ids }
        IN  /\ n = 0 => hd = { }
            /\ n >= 1 =>
                 /\ Cardinality(hd) = 1
                 /\ Cardinality(nx) = n - 1
                 /\ \A j \in nx : all_relationships[j].source.external_id
                                    # all_relationships[j].target.external_id
                 /\ \A j, k \in nx :
                      j # k => /\ all_relationships[j].source # all_relationships[k].source
                               /\ all_relationships[j].target # all_relationships[k].target
                 /\ LET head == all_relationships[CHOOSE j \in hd : TRUE].target.external_id
                        walk == Walk(head, nx, n)
                    IN  /\ Len(walk) = n
                        /\ { walk[i] : i \in 1..Len(walk) } = ids
                        /\ Cardinality(ids) = n

\* the calendar date of a YYYY-MM-DD text as (year, month, day)
DateValue(date) ==
    LET parts == SplitAt(date, "-")
    IN  << DecimalValue(parts[1], 0), DecimalValue(parts[2], 0), DecimalValue(parts[3], 0) >>

\* a is an earlier day than b
Earlier(a, b) ==
    LET x == DateValue(a)
        y == DateValue(b)
    IN  \/ x[1] < y[1]
        \/ x[1] = y[1] /\ x[2] < y[2]
        \/ x[1] = y[1] /\ x[2] = y[2] /\ x[3] < y[3]

\* the date of the Reading node with this external_id
DateOfNode(id) ==
    date_entries[CHOOSE i \in 1..Len(date_entries) : ReadingNodeAt(i).external_id = id].date

\* C6: for every (well, type) the chain is in strictly descending date
\* order: the HAS_DATA target is the Reading with the most recent date, and
\* every NEXT_DATE edge goes to a Reading of a strictly earlier date.
C6_ChainStrictlyDescending ==
    Built =>
      /\ \A j \in RelsOfType("HAS_DATA") :
           \A i \in 1..Len(date_entries) :
             (/\ date_entries[i].emission_type = all_relationships[j].target.type
              /\ TypeIdOf(emission_type_ids, date_entries[i].well_key,
                          date_entries[i].emission_type)
                   = all_relationships[j].source.external_id)
             => ~Earlier(DateOfNode(all_relationships[j].target.external_id),
                         date_entries[i].date)
      /\ \A j \in RelsOfType("NEXT_DATE") :
           Earlier(DateOfNode(all_relationships[j].target.external_id),
                   DateOfNode(all_relationships[j].source.external_id))

\* the distinct non-empty well keys among the data rows of at least 21 columns
KeptKeys ==
    LET cells == [ i \in 2..Len(csv_file) |-> SplitAt(csv_file[i], ",") ]
    IN  { Strip(cells[i][2]) : i \in { i \in DOMAIN cells : Len(cells[i]) >= 21 } } \ { << >> }

NodesWhere(P(_)) == { i \in 1..Len(all_nodes) : P(all_nodes[i]) }

RelsWhere(P(_)) == { j \in 1..Len(all_relationships) : P(all_relationships[j]) }

EmissionsIdText(k) == Sha256Hex24(k \o << "_", "e", "m", "i", "s", "s", "i", "o", "n", "s", "_" >>)

TypeIdText(k, t) ==
    Sha256Hex24(k \o << "_", "e", "m", "i", "s", "s", "i", "o", "n", "_", "t", "y", "p", "e", "_" >>
                  \o t \o << "_" >>)

\* C7: with w distinct non-empty well keys among the rows of at least 21
\* columns, the builder emits exactly w Well nodes, w Emissions nodes, w
\* HAS_EMISSIONS edges, 4w EmissionType nodes and 4w HAS_TYPE edges: one per
\* well, and one per well and fixed type, whatever readings survive.
C7_FixedSkeletonPerWell ==
    Built =>
      LET w == Cardinality(KeptKeys)
      IN  /\ Cardinality(NodesWhere(LAMBDA n : n.type = TypeWell)) = w
          /\ Cardinality(NodesWhere(LAMBDA n : n.type = TypeEmissions)) = w
          /\ Cardinality(NodesWhere(LAMBDA n : n.type = TypeEmissionType)) = 4 * w
          /\ Cardinality(RelsOfType("HAS_EMISSIONS")) = w
          /\ Cardinality(RelsOfType("HAS_TYPE")) = 4 * w
          /\ \A k \in KeptKeys :
               /\ Cardinality(NodesWhere(LAMBDA n : n.type = TypeWell /\ n.external_id = k)) = 1
               /\ Cardinality(NodesWhere(LAMBDA n : /\ n.type = TypeEmissions
                                                     /\ n.external_id = EmissionsIdText(k))) = 1
               /\ Cardinality(RelsWhere(LAMBDA r : /\ r.type = "HAS_EMISSIONS"
                                                    /\ r.source = End(TypeWell, k)
                                                    /\ r.target = End(TypeEmissions,
                                                                      EmissionsIdText(k)))) = 1
               /\ \A t \in { Flaring, ColdVentilation, DieselFuel, FuelGas } :
                    /\ Cardinality(NodesWhere(LAMBDA n : /\ n.type = TypeEmissionType
                                                          /\ n.external_id = TypeIdText(k, t))) = 1
                    /\ Cardinality(RelsWhere(LAMBDA r :
                                     /\ r.type = "HAS_TYPE"
                                     /\ r.source = End(TypeEmissions, EmissionsIdText(k))
                                     /\ r.target = End(TypeEmissionType, TypeIdText(k, t)))) = 1

\* two wells, a row that is dropped, and an emission type without readings
C7_Witness ==
    /\ Built
    /\ Cardinality(KeptKeys) = 2
    /\ Len(csv_file) = 4
    /\ Len(csv_data) = 2
    /\ GroupEntries(W2, FuelGas) = { }

\* the cells of the data rows of the file, by line number
CellsOfRows == [ i \in 2..Len(csv_file) |-> SplitAt(csv_file[i], ",") ]

\* what the cells of a row say about one field: the number in column c
\* (counted from 0) when it parses, and the unit in column c + 1 when the
\* number parses and the unit is not empty
FieldOfRow(cells, c) ==
    LET text   == Strip(cells[c + 1])
        uom    == Strip(cells[c + 2])
        parsed == ParseFloat(text)
    IN  IF text # << >> /\ parsed.ok
        THEN [ has |-> TRUE, x |-> parsed.x, meta |-> uom # << >>, units |-> uom ]
        ELSE [ has |-> FALSE, x |-> 0, meta |-> FALSE, units |-> << >> ]

\* the first column of the t-th emission type: 5, 9, 13, 17
FirstColumn(t) == 5 + 4 * (t - 1)

ReadingOfRow(cells, t) ==
    [ volume |-> FieldOfRow(cells, FirstColumn(t)),
      mass   |-> FieldOfRow(cells, FirstColumn(t) + 2) ]

\* what a Reading node carries for one field
FieldOfNode(n, name) ==
    LET ps == { p \in 1..Len(n.properties) : n.properties[p].type = name }
    IN  IF ps = { }
        THEN [ has |-> FALSE, x |-> 0, meta |-> FALSE, units |-> << >> ]
        ELSE LET p == n.properties[CHOOSE p \in ps : TRUE]
             IN  [ has   |-> Cardinality(ps) = 1 /\ p.value.t = "float",
                   x     |-> p.value.x,
                   meta  |-> "metadata" \in DOMAIN p,
                   units |-> IF "metadata" \in DOMAIN p THEN p.metadata.units ELSE << >> ]

ReadingOfNode(n) ==
    [ volume |-> FieldOfNode(n, PropVolume), mass |-> FieldOfNode(n, PropMass) ]

\* C8: for every kept row and every emission type a Reading is produced
\* exactly when the volume or the mass at the type's columns is non-empty and
\* parses as a number; a field that does not parse is absent from the Reading
\* and the other one is kept; the Reading has a volume (mass) property
\* exactly when the volume (mass) parsed, with unit metadata exactly when the
\* unit text is not empty.  The Readings of a (well, type) are compared with
\* its rows as multisets.
C8_ReadingIffFieldParses ==
    Built =>
      LET cells == CellsOfRows
          kept  == { i \in DOMAIN cells : Len(cells[i]) >= 21 /\ Strip(cells[i][2]) # << >> }
          key   == [ i \in kept |-> Strip(cells[i][2]) ]
      IN  \A k \in { key[i] : i \in kept } : \A t \in 1..4 :
            LET ofRow    == [ i \in { i \in kept : key[i] = k } |-> ReadingOfRow(cells[i], t) ]
                rows     == { i \in DOMAIN ofRow : ofRow[i].volume.has \/ ofRow[i].mass.has }
                readings == GroupEntries(k, emission_types[t])
                ofNode   == [ e \in readings |-> ReadingOfNode(ReadingNodeAt(e)) ]
            IN  /\ Cardinality(readings) = Cardinality(rows)
                /\ \A sig \in { ofRow[i] : i \in rows } \cup { ofNode[e] : e \in readings } :
                     Cardinality({ i \in rows : ofRow[i] = sig })
                       = Cardinality({ e \in readings : ofNode[e] = sig })

\* a row whose volume is text that is no number and whose mass is a number
\* with a unit: the Reading has the mass only
C8_Witness ==
    /\ Built
    /\ Len(csv_file) = 2
    /\ \E t \in 1..4 :
         LET cells == SplitAt(csv_file[2], ",")
         IN  /\ Len(cells) >= 21
             /\ Strip(cells[FirstColumn(t) + 1]) # << >>
             /\ ~ReadingOfRow(cells, t).volume.has
             /\ ReadingOfRow(cells, t).mass.has
             /\ ReadingOfRow(cells, t).mass.meta
             /\ \E e \in 1..Len(date_entries) :
                  /\ date_entries[e].emission_type = emission_types[t]
                  /\ ReadingOfNode(ReadingNodeAt(e)) = ReadingOfRow(cells, t)

\* the file whose only data row is line has been built and the nodes hold
\* exactly one Reading for W1, Flaring, 2024-03-15, labelled Emission, with a
\* volume of 100 in bbl
ExampleReadingBuilt(line) ==
    (csv_file = << HeaderLine, line >> /\ Built) =>
      LET found == NodesWhere(LAMBDA n :
                     /\ n.external_id
                          = Sha256Hex24(<< "W", "1", "_", "F", "l", "a", "r", "i", "n", "g", "_",
                                           "2", "0", "2", "4", "-", "0", "3", "-", "1", "5" >>)
                     /\ n.type = << "F", "l", "a", "r", "i", "n", "g" >>
                     /\ "labels" \in DOMAIN n
                     /\ \E l \in 1..Len(n.labels) :
                          n.labels[l] = << "E", "m", "i", "s", "s", "i", "o", "n" >>
                     /\ \E p \in 1..Len(n.properties) :
                          /\ n.properties[p].type = << "v", "o", "l", "u", "m", "e" >>
                          /\ n.properties[p].value = Float(100)
                          /\ "metadata" \in DOMAIN n.properties[p]
                          /\ n.properties[p].metadata.units = << "b", "b", "l" >>)
      IN  Cardinality(found) = 1

\* C9 as stated: the data row WellA,W1,2024,3,15,100,bbl,,,,,,,,,,50,scf,,
\* yields the Reading node derive("W1","Flaring","2024-03-15") of type
\* Flaring, labelled Emission, with volume 100.0 and unit metadata bbl
C9_ExampleRowAsStated == ExampleReadingBuilt(ExampleLine)

\* C9: the example data row WellA,W1,2024,3,15,100,bbl,,,,,,,,,,50,scf,,,
\* written with the 21 columns a kept row needs, yields the Reading node
\* derive("W1","Flaring","2024-03-15") of type Flaring, labelled Emission,
\* with volume 100.0 and unit metadata bbl; as printed, with 20 columns, the
\* row is skipped and no node at all is built.
C9_ExampleRowWith21Columns ==
    /\ ExampleReadingBuilt(ExampleLine21)
    /\ (csv_file = << HeaderLine, ExampleLine >> /\ Built) => all_nodes = << >>

C9_Witness ==
    /\ csv_file = << HeaderLine, ExampleLine21 >>
    /\ Built
    /\ Len(all_nodes) = 7

\* a node with the verified_time of its metadata blanked
WithoutVerifiedTime(n) ==
    [ n EXCEPT !.properties =
        [ p \in 1..Len(n.properties) |->
            IF "metadata" \in DOMAIN n.properties[p]
            THEN [ n.properties[p] EXCEPT !.metadata.verified_time = 0 ]
            ELSE n.properties[p] ] ]

\* C10: a second run of the builder on the same file gives the same node
\* external_ids and types in the same order and the same (source, target,
\* type) relationships in the same order; the nodes of the two runs differ
\* in nothing but the verified_time of their metadata.
C10_RerunReproducesGraph ==
    (run = 2 /\ Built) =>
      /\ Len(all_nodes) = Len(prev_nodes)
      /\ \A i \in 1..Len(all_nodes) :
           /\ all_nodes[i].external_id = prev_nodes[i].external_id
           /\ all_nodes[i].type = prev_nodes[i].type
           /\ WithoutVerifiedTime(all_nodes[i]) = WithoutVerifiedTime(prev_nodes[i])
      /\ Len(all_relationships) = Len(prev_relationships)
      /\ \A j \in 1..Len(all_relationships) :
           /\ all_relationships[j].source = prev_relationships[j].source
           /\ all_relationships[j].target = prev_relationships[j].target
           /\ all_relationships[j].type = prev_relationships[j].type

\* a second run at a later time over two wells with chained readings: the
\* metadata differ, the identities do not
C10_Witness ==
    /\ run = 2
    /\ Built
    /\ all_nodes # prev_nodes
    /\ Len(well_info) = 2
    /\ RelsOfType("NEXT_DATE") # { }

(***************************************************************************)
(* generate_external_id on its own (lines 40-47), with the digest          *)
(* computed: called up to MaxDerives times on the same three arguments.    *)
(***************************************************************************)
\* a key of 40 characters: its text to hash fills more than one block
LongKey == [ i \in 1..40 |-> "W" ]

HashKeys ==
    { << >>, W1, W1Padded, << "W", OSlash, "1" >>, << EuroSign, GClef >>, LongKey }

HashCategories ==
    { << >>, EmissionsLabel, Flaring, FuelGas, EmissionTypePrefix \o Flaring }

HashDates ==
    { << >>,
      << "2", "0", "2", "4", "-", "0", "3", "-", "1", "5" >>,
      << "2", "0", "2", "4", "-", "1", "2", "-", "0", "1" >>,
      << "9", "9", "9", "-", "0", "1", "-", "0", "1" >> }

InitHash ==
    /\ pc = "derive"
    /\ InitLoader(<< HeaderLine >>, { }, { }, FALSE)
    /\ InitEnv(Str(Token), Str(DefaultHost), TRUE)
    /\ InitReplayIdle
    /\ hash_result = << >>
    /\ \E key \in HashKeys, category \in HashCategories, date \in HashDates :
         /\ hash_key = key
         /\ hash_category = category
         /\ hash_date = date

Derive ==
    /\ pc = "derive"
    /\ Len(hash_result) < MaxDerives
    /\ hash_result' =
         Append(hash_result, generate_external_id_digest(hash_key, hash_category, hash_date))
    /\ UNCHANGED << pc, argVars, actual_batch_size, actual_max_threads, buildVars,
                    poolVars, rerunVars, printed, envVars,
                    hash_key, hash_category, hash_date, replayVars >>

NextHash == Derive

SpecHash == InitHash /\ [][NextHash]_vars

\* hashlib.sha256(b).hexdigest()[:24] of CPython for five texts
ReferenceDigests ==
    { [ key |-> W1, category |-> Flaring,
        date |-> << "2", "0", "2", "4", "-", "0", "3", "-", "1", "5" >>,
        digest |-> << "b", "9", "a", "c", "7", "5", "a", "9", "0", "c", "6", "4",
                      "1", "a", "5", "2", "8", "3", "e", "0", "6", "6", "7", "8" >> ],
      [ key |-> << >>, category |-> << >>, date |-> << >>,
        digest |-> << "9", "9", "1", "1", "f", "4", "d", "2", "b", "1", "8", "4",
                      "5", "7", "c", "4", "7", "2", "6", "6", "6", "4", "d", "3" >> ],
      [ key |-> << "W", OSlash, "1" >>, category |-> EmissionsLabel, date |-> << >>,
        digest |-> << "7", "4", "a", "2", "9", "d", "e", "d", "d", "f", "d", "d",
                      "c", "3", "6", "a", "6", "3", "c", "8", "e", "a", "f", "b" >> ],
      [ key |-> LongKey, category |-> FuelGas,
        date |-> << "2", "0", "2", "4", "-", "1", "2", "-", "0", "1" >>,
        digest |-> << "b", "6", "8", "d", "7", "3", "4", "3", "1", "d", "a", "2",
                      "a", "7", "f", "a", "b", "6", "f", "5", "a", "1", "7", "6" >> ],
      [ key |-> << EuroSign, GClef >>, category |-> EmissionTypePrefix \o Flaring,
        date |-> << >>,
        digest |-> << "0", "6", "a", "b", "b", "b", "b", "d", "8", "f", "c", "d",
                      "7", "7", "e", "5", "b", "d", "4", "2", "c", "b", "c", "6" >> ] }

LowerHex ==
    { "0", "1", "2", "3", "4", "5", "6", "7", "8", "9", "a", "b", "c", "d", "e", "f" }

\* C11: every call of generate_external_id returns exactly 24 characters,
\* each a lowercase hexadecimal digit; calls with the same arguments return
\* the same text; and the text is the first 24 hex characters of the SHA-256
\* digest of the UTF-8 bytes of key_category_date, as CPython's hashlib
\* gives them for the reference texts (ASCII, empty, two- to four-byte
\* characters, and a text of two blocks).
C11_DeriveIs24HexOfSha256 ==
    \A i \in 1..Len(hash_result) :
        /\ Len(hash_result[i]) = 24
        /\ \A j \in 1..Len(hash_result[i]) : hash_result[i][j] \in LowerHex
        /\ hash_result[i] = hash_result[1]
        /\ \A ref \in ReferenceDigests :
             (hash_key = ref.key /\ hash_category = ref.category /\ hash_date = ref.date)
             => hash_result[i] = ref.digest

\* two calls on a key with a character outside ASCII, with a reference digest
C11_Witness ==
    /\ Len(hash_result) = 2
    /\ hash_key = << "W", OSlash, "1" >>
    /\ hash_category = EmissionsLabel
    /\ hash_date = << >>

(***************************************************************************)
(* bin/post_nodes_rels.py.  A JSON document is None, an int, a str, a      *)
(* list of documents, or a dict: a sequence of (key, value) items in       *)
(* insertion order, with TLA+ strings as keys.                             *)
(***************************************************************************)
JInt(x) == [ t |-> "int", x |-> x ]

JList(items) == [ t |-> "list", items |-> items ]

JDict(fields) == [ t |-> "dict", fields |-> fields ]

\* isinstance(v, dict), isinstance(v, list)
IsDict(v) == v.t = "dict"

IsList(v) == v.t = "list"

\* key in v, for a dict v
In(key, v) == HasKey(v.fields, key)

\* bool(v): None, 0, "", [] and {} are falsy
Truthy(v) ==
    CASE v.t = "none" -> FALSE
      [] v.t = "int" -> v.x # 0
      [] v.t = "str" -> v.s # << >>
      [] v.t = "list" -> v.items # << >>
      [] v.t = "dict" -> v.fields # << >>

\* detect_type: {} for None
detect_type(d) ==
    IF IsDict(d)
    THEN IF In("nodes", d) /\ IsList(Lookup(d.fields, "nodes")) THEN { "nodes" }
         ELSE IF In("external_id", d) /\ In("type", d) THEN { "nodes" }
         ELSE { }
    ELSE IF IsList(d)
    THEN IF Len(d.items) > 0
         THEN LET first_item == d.items[1]
              IN  IF IsDict(first_item)
                  THEN IF /\ In("external_id", first_item)
                          /\ In("type", first_item)
                          /\ In("properties", first_item)
                       THEN { "nodes" }
                       ELSE IF /\ In("source", first_item)
                               /\ In("target", first_item)
                               /\ In("type", first_item)
                            THEN { "relationships" }
                            ELSE { }
                  ELSE { }
         ELSE { }
    ELSE { }

\* while isinstance(items, dict) and "nodes" in items: items = items["nodes"]
RECURSIVE UnwrapNodes(_)
UnwrapNodes(items) ==
    IF IsDict(items) /\ In("nodes", items)
    THEN UnwrapNodes(Lookup(items.fields, "nodes"))
    ELSE items

\* the list handed to post_nodes: what is left after unwrapping, wrapped in
\* a list if it is not one, or [] if it is falsy
NodeItems(d) ==
    LET items == UnwrapNodes(d)
    IN  IF IsList(items) THEN items
        ELSE IF Truthy(items) THEN JList(<< items >>)
        ELSE JList(<< >>)

\* the body of the POST of post_nodes, and of post_relationships
NodesPayload(items) == JDict(<< Item("nodes", items) >>)

RelationshipsPayload(payload) == payload

\* len(v) is defined
HasLen(v) == v.t \in { "str", "list", "dict" }

\* post_relationships, lines 96-97: the count for the log is
\* len(payload["relationships"]), which raises before the POST when that
\* value is a number or null
RelationshipCountRaises(payload) ==
    /\ IsDict(payload)
    /\ In("relationships", payload)
    /\ ~HasLen(Lookup(payload.fields, "relationships"))

\* What requests.post does: it raises, or it returns a response with a
\* status and a body that is JSON or not.
TransportError == [ kind |-> "transport_error", status |-> 0, json_body |-> FALSE ]

Response(status, json_body) ==
    [ kind |-> "response", status |-> status, json_body |-> json_body ]

PostOutcomes ==
    { TransportError }
    \cup { Response(status, json_body) :
             status \in { 200, 201, 202, 400, 500 }, json_body \in BOOLEAN }

\* response.raise_for_status() raises for 4xx and 5xx
RaiseForStatus(status) == status >= 400 /\ status < 600

\* a post that trusts any body once the status is accepted
PostRaisesOnStatusOnly(outcome) ==
    \/ outcome.kind = "transport_error"
    \/ outcome.status \notin { 200, 201 } /\ RaiseForStatus(outcome.status)

\* post_nodes and post_relationships raise when requests.post raises, when
\* the status is neither 200 nor 201 and raise_for_status raises, or when
\* response.json() cannot decode the body
PostRaises(outcome) ==
    \/ outcome.kind = "transport_error"
    \/ outcome.status \notin { 200, 201 } /\ RaiseForStatus(outcome.status)
    \/ ~outcome.json_body

\* what is at the json_file path: a JSON document, text that is not JSON,
\* or something open() or read() fails on (a directory, no permission)
JsonFile(doc) == [ state |-> "json", doc |-> doc ]

InvalidJsonFile == [ state |-> "invalid", doc |-> None ]

UnreadableFile == [ state |-> "unreadable", doc |-> None ]

\* the objects and scalars drawn as elements of a list
NodeObject ==
    JDict(<< Item("external_id", Str(W1)), Item("type", Str(TypeWell)),
             Item("properties", JList(<< >>)) >>)

NodeStub == JDict(<< Item("external_id", Str(W1)), Item("type", Str(TypeWell)) >>)

RelationshipObject ==
    JDict(<< Item("source", NodeStub), Item("target", NodeStub),
             Item("type", Str(Flaring)) >>)

OtherObject == JDict(<< Item("name", Str(WellA)) >>)

ListElements == { NodeObject, NodeStub, RelationshipObject, OtherObject, JInt(7) }

JsonLists == { JList(items) : items \in SeqsUpTo(ListElements, MaxItems) }

\* d wrapped n times in {"nodes": ...}
RECURSIVE Wrapped(_, _)
Wrapped(d, n) ==
    IF n = 0 THEN d ELSE JDict(<< Item("nodes", Wrapped(d, n - 1)) >>)

ReplayDocs ==
    { Wrapped(l, n) : l \in JsonLists, n \in 0..MaxNesting }
    \cup { NodeObject, NodeStub, RelationshipObject, OtherObject, JDict(<< >>),
           None, JInt(0), JInt(7), Str(W1),
           Wrapped(None, 1), Wrapped(JInt(7), 1), Wrapped(NodeObject, 1),
           Wrapped(OtherObject, 2),
           JDict(<< Item("relationships", JList(<< RelationshipObject >>)) >>),
           JDict(<< Item("relationships", JInt(7)) >>),
           JDict(<< Item("relationships", None) >>) }

ReplayFiles ==
    { JsonFile(d) : d \in ReplayDocs } \cup { InvalidJsonFile, UnreadableFile }

TypeArgs == { { }, { "nodes" }, { "relationships" } }

\* the tokens and hosts the environment can give
Tokens == { None, Str(<< >>), Str(Token) }

Hosts == { Str(<< >>), Str(DefaultHost) }

InitReplayWith(ok, type, file, token, host, exists) ==
    /\ pc = "replay_main"
    /\ InitLoader(<< HeaderLine >>, { }, { }, FALSE)
    /\ InitHashIdle
    /\ InitEnv(token, host, exists)
    /\ args_ok = ok
    /\ type_arg = type
    /\ json_file = file
    /\ json_data = None
    /\ data_type = { }
    /\ posted = << >>
    /\ exit_status = { }

\* every file and --type with a good command line and environment; every
\* command line and environment with one file
InitReplay ==
    \/ \E type \in TypeArgs, file \in ReplayFiles :
         InitReplayWith(TRUE, type, file, Str(Token), Str(DefaultHost), TRUE)
    \/ \E ok \in BOOLEAN, type \in TypeArgs, token \in Tokens, host \in Hosts,
          exists \in BOOLEAN :
         InitReplayWith(ok, type, JsonFile(JList(<< NodeObject >>)), token, host, exists)

ReplayUnchanged ==
    UNCHANGED << argVars, actual_batch_size, actual_max_threads, buildVars,
                 poolVars, rerunVars, printed, envVars, hashVars,
                 args_ok, type_arg, json_file >>

\* main, lines 177-206: parse_args exits with status 2 on a bad command
\* line; a missing token, an empty host or a missing file returns 1
ReplayMain ==
    /\ pc = "replay_main"
    /\ IF ~args_ok
       THEN exit_status' = { 2 } /\ pc' = "replay_exit"
       ELSE IF ~Truthy(INDYKITE_TOKEN) \/ ~Truthy(INDYKITE_HOST) \/ ~file_exists
       THEN exit_status' = { 1 } /\ pc' = "replay_exit"
       ELSE exit_status' = exit_status /\ pc' = "replay_read"
    /\ UNCHANGED << json_data, data_type, posted >>
    /\ ReplayUnchanged

\* main, lines 208-217: json.load, or return 1
ReplayRead ==
    /\ pc = "replay_read"
    /\ IF json_file.state = "json"
       THEN json_data' = json_file.doc /\ exit_status' = exit_status /\ pc' = "replay_type"
       ELSE json_data' = json_data /\ exit_status' = { 1 } /\ pc' = "replay_exit"
    /\ UNCHANGED << data_type, posted >>
    /\ ReplayUnchanged

\* main, lines 219-227: --type, else detect_type, else return 1
ReplayType ==
    /\ pc = "replay_type"
    /\ LET type == IF type_arg # { } THEN type_arg ELSE detect_type(json_data)
       IN  /\ data_type' = type
           /\ IF type = { }
              THEN exit_status' = { 1 } /\ pc' = "replay_exit"
              ELSE exit_status' = exit_status /\ pc' = "replay_post"
    /\ UNCHANGED << json_data, posted >>
    /\ ReplayUnchanged

\* main, lines 229-270: one call of post_nodes or post_relationships;
\* return 0, or 1 if it raises
ReplayPost ==
    /\ pc = "replay_post"
    /\ IF data_type = { "relationships" } /\ RelationshipCountRaises(json_data)
       THEN posted' = posted /\ exit_status' = { 1 }
       ELSE \E outcome \in PostOutcomes :
              /\ posted' =
                   Append(posted,
                          [ endpoint |-> CHOOSE type \in data_type : TRUE,
                            payload  |-> IF data_type = { "nodes" }
                                         THEN NodesPayload(NodeItems(json_data))
                                         ELSE RelationshipsPayload(json_data),
                            outcome  |-> outcome ])
              /\ exit_status' = IF PostRaises(outcome) THEN { 1 } ELSE { 0 }
    /\ pc' = "replay_exit"
    /\ UNCHANGED << json_data, data_type >>
    /\ ReplayUnchanged

NextReplay ==
    \/ ReplayMain
    \/ ReplayRead
    \/ ReplayType
    \/ ReplayPost

SpecReplay == InitReplay /\ [][NextReplay]_vars

\* the command line, the environment and the file let main reach its
\* type determination
ReplayConfigured ==
    /\ args_ok
    /\ Truthy(INDYKITE_TOKEN)
    /\ Truthy(INDYKITE_HOST)
    /\ file_exists

ReplayTypeDetermined ==
    /\ ReplayConfigured
    /\ json_file.state = "json"
    /\ pc \in { "replay_post", "replay_exit" }

\* every element of the list d is a dict with all of the keys
EachHas(d, keys) ==
    \A i \in 1..Len(d.items) :
      IsDict(d.items[i]) /\ \A key \in keys : In(key, d.items[i])

RelationshipShape(d) ==
    IsList(d) /\ Len(d.items) > 0 /\ EachHas(d, { "source", "target", "type" })

NodeShape(d) ==
    \/ IsDict(d) /\ In("nodes", d) /\ IsList(Lookup(d.fields, "nodes"))
    \/ IsDict(d) /\ In("external_id", d) /\ In("type", d)
    \/ IsList(d) /\ Len(d.items) > 0
         /\ EachHas(d, { "external_id", "type", "properties" })

\* C12: without --type, the document is typed relationships when it is a
\* non-empty list of dicts that each have source, target and type; nodes when
\* it is a dict with a nodes list, a dict with external_id and type, or a
\* non-empty list of dicts that each have external_id, type and properties;
\* and otherwise it has no type, and main returns 1 without a POST.
C12_DetectTypeByEveryElement ==
    (ReplayTypeDetermined /\ type_arg = { }) =>
      IF RelationshipShape(json_data) THEN data_type = { "relationships" }
      ELSE IF NodeShape(json_data) THEN data_type = { "nodes" }
      ELSE data_type = { } /\ exit_status = { 1 } /\ posted = << >>

\* the POST was answered without an error status, and the body of the
\* answer is JSON
PostSucceeded ==
    /\ posted[1].outcome.kind = "response"
    /\ posted[1].outcome.status < 400
    /\ posted[1].outcome.json_body

RECURSIVE NestingDepth(_)
NestingDepth(d) ==
    IF IsDict(d) /\ Len(d.fields) = 1 /\ d.fields[1].k = "nodes"
    THEN 1 + NestingDepth(d.fields[1].v)
    ELSE 0

\* what is inside the wrapping
RECURSIVE Innermost(_)
Innermost(d) ==
    IF NestingDepth(d) = 0 THEN d ELSE Innermost(d.fields[1].v)

NestedNodeList(d) == NestingDepth(d) >= 1 /\ IsList(Innermost(d))

\* C14: a list wrapped in any depth of {"nodes": ...} is posted once, to the
\* nodes endpoint, as the nodes field of the body, with --type nodes and
\* with the type detected.
C14_NestedNodesUnwrapped ==
    ( /\ pc = "replay_exit"
      /\ ReplayConfigured
      /\ json_file.state = "json"
      /\ NestedNodeList(json_file.doc)
      /\ type_arg \in { { }, { "nodes" } } ) =>
      /\ Len(posted) = 1
      /\ posted[1].endpoint = "nodes"
      /\ posted[1].payload = NodesPayload(Innermost(json_file.doc))

(***************************************************************************)
(* Both tools from their main.  The loader's main validates its            *)
(* configuration and then calls process_emissions_data.                    *)
(***************************************************************************)
\* a main that looks for the file only
MainRejectsFileOnly == ~file_exists

\* load_emissions.py main, lines 671-687: the file does not exist, the
\* token is missing or the host is empty
MainRejects ==
    \/ ~file_exists
    \/ ~Truthy(INDYKITE_TOKEN)
    \/ ~Truthy(INDYKITE_HOST)

\* the Error line main prints before it returns
MainError ==
    IF ~file_exists THEN Report("csv_file_not_found")
    ELSE IF ~Truthy(INDYKITE_TOKEN) THEN Report("missing_token")
    ELSE Report("missing_host")

\* main up to its call of process_emissions_data
Main ==
    /\ pc = "main"
    /\ IF MainRejects
       THEN printed' = printed \cup { MainError } /\ pc' = "exit"
       ELSE printed' = printed /\ pc' = "start"
    /\ UNCHANGED << argVars, actual_batch_size, actual_max_threads, buildVars,
                    poolVars, rerunVars, besideVars >>

InitMain ==
    \/ \E file \in DispatchFiles, bs \in BatchSizeArgs, mt \in ThreadArgs,
          dbg \in BOOLEAN :
         /\ pc = "main"
         /\ InitLoader(file, bs, mt, dbg)
         /\ InitEnv(Str(Token), Str(DefaultHost), TRUE)
         /\ InitHashIdle
         /\ InitReplayIdle
    \/ \E file \in DispatchFiles, dbg \in BOOLEAN, token \in Tokens,
          host \in Hosts, exists \in BOOLEAN :
         /\ pc = "main"
         /\ InitLoader(file, { }, { }, dbg)
         /\ InitEnv(token, host, exists)
         /\ InitHashIdle
         /\ InitReplayIdle

InitTools == InitMain \/ InitReplay

NextTools ==
    \/ Main
    \/ Next
    \/ NextReplay

SpecTools == InitTools /\ [][NextTools]_vars

\* the token is absent, the host is empty or the input file is missing
ConfigurationError ==
    \/ ~Truthy(INDYKITE_TOKEN)
    \/ ~Truthy(INDYKITE_HOST)
    \/ ~file_exists

\* nothing has been read, built, batched, submitted or posted by either tool
NothingBegun ==
    /\ pc \in { "main", "exit", "replay_main", "replay_exit" }
    /\ csv_data = << >>
    /\ all_nodes = << >>
    /\ all_relationships = << >>
    /\ \A r \in Rounds :
         /\ batches[r] = << >>
         /\ submitted[r] = 0
         /\ posts[r] = 0
    /\ json_data = None
    /\ data_type = { }
    /\ posted = << >>

\* C15: in both tools, with the token absent, the host empty or the input
\* file missing, there is no POST and no processing or dispatch begins.
C15_ConfigurationErrorAborts == ConfigurationError => NothingBegun

\* the loader's main has returned on an empty host, having reported it
C15_Witness ==
    /\ pc = "exit"
    /\ file_exists
    /\ Truthy(INDYKITE_TOKEN)
    /\ ~Truthy(INDYKITE_HOST)
    /\ Report("missing_host") \in printed

\* C16: with DEBUG_MODE set no request is sent, and each round that ran
\* ends with completed = the number of its batches and failed = 0.
C16_DebugModeSendsNothing ==
    DEBUG_MODE =>
      /\ \A r \in Rounds : posts[r] = 0
      /\ \A r \in Rounds : RoundOver(r) => completed = NumBatches(r) /\ failed = 0

\* a dry run is done: both rounds ran over their batches and nothing was posted
C16_Witness ==
    /\ DEBUG_MODE
    /\ pc = "done"
    /\ NumBatches("nodes") > 0
    /\ NumBatches("relationships") > 0
    /\ completed = NumBatches("relationships")
    /\ \A r \in Rounds : \A c \in 1..NumBatches(r) : calls[r][c] = 1

\* the data rows of the file that give nothing: fewer than 21 columns, or
\* 21 columns and an empty well key
ShortRows == { i \in 2..Len(csv_file) : Len(SplitComma(csv_file[i])) < MinColumns }

KeylessRows ==
    { i \in 2..Len(csv_file) :
        /\ Len(SplitComma(csv_file[i])) >= MinColumns
        /\ Strip(Cell(SplitComma(csv_file[i]), 1)) = << >> }

\* C17: when the run ends, every row of fewer than 21 columns, every row
\* with an empty well_key and every failed batch has at least one printed
\* report.
C17_EveryDropReported ==
    pc = "done" =>
      /\ \A i \in ShortRows \cup KeylessRows :
           \E report \in printed : report.line = csv_file[i]
      /\ \A r \in Rounds : \A c \in raised[r] :
           \E report \in printed : report.round = r /\ report.batch = c

\* C18: the node list holds no two nodes with the same external_id.
C18_NodeIdsDistinct ==
    Built =>
      \A i, j \in 1..Len(all_nodes) :
        i # j => all_nodes[i].external_id # all_nodes[j].external_id

\* the node list holds a node with the type and the external_id of the end
NodeFor(end) ==
    \E i \in 1..Len(all_nodes) :
      /\ all_nodes[i].external_id = end.external_id
      /\ all_nodes[i].type = end.type

\* the end is the Reading of an entry of the (well, type)
ReadingOf(end, well_key, emission_type) ==
    \E i \in GroupEntries(well_key, emission_type) :
      /\ end.external_id = ReadingNodeAt(i).external_id
      /\ end.type = emission_type

\* C19: both ends of every relationship are nodes of the node list, by type
\* and external_id; HAS_EMISSIONS goes from a Well to the Emissions of that
\* well, HAS_TYPE from the Emissions of a well to an EmissionType of that
\* well, HAS_DATA from the EmissionType of a (well, type) to a Reading of it,
\* and NEXT_DATE between two Readings of one (well, type).
C19_RelationshipsClosed ==
    Built =>
      \A j \in 1..Len(all_relationships) :
        LET rel == all_relationships[j]
        IN  /\ NodeFor(rel.source)
            /\ NodeFor(rel.target)
            /\ rel.type \in { "HAS_EMISSIONS", "HAS_TYPE", "HAS_DATA", "NEXT_DATE" }
            /\ rel.type = "HAS_EMISSIONS" =>
                 \E w \in 1..Len(well_info) :
                   /\ rel.source = End(TypeWell, well_info[w].well_key)
                   /\ rel.target = End(TypeEmissions, EmissionsIdText(well_info[w].well_key))
            /\ rel.type = "HAS_TYPE" =>
                 \E w \in 1..Len(well_info), e \in 1..Len(emission_type_ids) :
                   /\ emission_type_ids[e].well_key = well_info[w].well_key
                   /\ rel.source = End(TypeEmissions, EmissionsIdText(well_info[w].well_key))
                   /\ rel.target =
                        End(TypeEmissionType,
                            TypeIdText(well_info[w].well_key,
                                       emission_type_ids[e].emission_type))
            /\ rel.type = "HAS_DATA" =>
                 \E e \in 1..Len(emission_type_ids) :
                   /\ rel.source =
                        End(TypeEmissionType,
                            TypeIdText(emission_type_ids[e].well_key,
                                       emission_type_ids[e].emission_type))
                   /\ ReadingOf(rel.target, emission_type_ids[e].well_key,
                                emission_type_ids[e].emission_type)
            /\ rel.type = "NEXT_DATE" =>
                 \E e \in 1..Len(emission_type_ids) :
                   /\ ReadingOf(rel.source, emission_type_ids[e].well_key,
                                emission_type_ids[e].emission_type)
                   /\ ReadingOf(rel.target, emission_type_ids[e].well_key,
                                emission_type_ids[e].emission_type)

\* a graph of two wells with an edge of each type
C19_Witness ==
    /\ Built
    /\ Len(well_info) = 2
    /\ \A type \in { "HAS_EMISSIONS", "HAS_TYPE", "HAS_DATA", "NEXT_DATE" } :
         RelsOfType(type) # { }

(***************************************************************************)
(* Progress.  The main thread keeps running, the pool threads take what is *)
(* queued, and every sink call returns or raises.  For the steps of the    *)
(* builder, weak fairness is written out: the builder has a step to take   *)
(* exactly when pc is one of its own, so WF_vars(Build) is                 *)
(* []<>(~Building) \/ []<><<Build>>_vars.                                  *)
(***************************************************************************)
Building ==
    pc \in { "read", "group", "collect", "sort", "build_nodes", "build_relationships" }

Build ==
    \/ ReadCsv
    \/ GroupByWell
    \/ CollectEntries
    \/ SortEntries
    \/ BuildNodeList
    \/ BuildRelationshipList

Dispatch ==
    \/ Start
    \/ \E r \in Rounds : SkipRound(r)
    \/ \E r \in Rounds : PrepareBatches(r)
    \/ \E r \in Rounds : Submit(r)
    \/ \E r \in Rounds : BeginCollect(r)
    \/ \E r \in Rounds : \E w \in Workers(r) : WorkerTake(r, w)
    \/ \E r \in Rounds : \E w \in Workers(r) : SinkReturns(r, w)
    \/ \E r \in Rounds : \E w \in Workers(r) : SinkRaises(r, w)
    \/ \E r \in Rounds : Tally(r)
    \/ \E r \in Rounds : EndRound(r)

SpecLive ==
    /\ Init
    /\ [][Next]_vars
    /\ WF_vars(Dispatch)
    /\ ([]<>(~Building) \/ []<><<Build>>_vars)

\* every node batch has resolved and was handed out by as_completed
NodeRoundEnded ==
    \A d \in 1..NumBatches("nodes") :
      future["nodes"][d].state = "done" /\ d \in yielded["nodes"]

\* every batch of all_relationships was submitted and given to the sink once
RelationshipsDispatchedOnce ==
    /\ NumBatches("relationships") = CeilDiv(Len(all_relationships), actual_batch_size)
    /\ submitted["relationships"] = NumBatches("relationships")
    /\ \A c \in 1..NumBatches("relationships") : calls["relationships"][c] = 1

\* C20: whichever node batches fail, process_emissions_data returns, and
\* when it has returned every relationship batch was submitted exactly once,
\* none of them before the node round ended.
C20_RelationshipRoundUnconditional ==
    /\ <>(pc = "done")
    /\ [](pc = "done" => RelationshipsDispatchedOnce)
    /\ [](submitted["relationships"] > 0 => NodeRoundEnded)

\* the run is over: every node batch failed, every relationship batch went
\* to the sink once
C20_Witness ==
    /\ pc = "done"
    /\ NumBatches("nodes") >= 2
    /\ raised["nodes"] = 1..NumBatches("nodes")
    /\ NumBatches("relationships") >= 2
    /\ RelationshipsDispatchedOnce

=============================================================================
